---- MODULE Spec2Model ----
(***************************************************************************)
(* The match state machine of tcg-sim: engine/src/game.rs (GameState,      *)
(* Player, GameState::step), the card and fragment model of                *)
(* engine/src/card.rs, the capability modules engine/src/creature.rs and   *)
(* engine/src/tappable.rs, and the two decision entry points of            *)
(* server/src/main.rs (post_declare_attackers, post_declare_blockers).     *)
(*                                                                         *)
(* Rust Vec positions are 0-based; TLA+ sequences are 1-based.  Every      *)
(* position stored in the state (attacking_creatures, blocking_map) keeps  *)
(* its 0-based Rust value and is shifted by one where a sequence is read.  *)
(* Option<T> is a sequence of length 0 (None) or 1 (Some).                 *)
(***************************************************************************)
EXTENDS Integers, Sequences, FiniteSets, TLC

(***************************************************************************)
(* Bounds of the model.                                                    *)
(***************************************************************************)
\* player_count handed to GameState::new ranges over 0..MaxPlayerCount
MaxPlayerCount == 2
\* externally declared positions range over 0..MaxDeclaredPos
MaxDeclaredPos == 1
\* a declared blocker position beyond every battlefield of a nine-card deck
FarPos == 9
\* number of calls of the decision entry points explored in one match
MaxDeclares == 1
\* matches placed in Main: players, lands on the battlefield, cards in hand
MaxScenarioPlayers == 3
MaxScenarioLands == 4
MaxScenarioHand == 3
\* the greatest map key a snapshot is parsed for
MaxKey == 12
\* the greatest power and toughness of an attached creature fragment
MaxStat == 2

\* the requests of the service in progress at the same time
MaxRequests == 3

(***************************************************************************)
(* Program constants.                                                      *)
(***************************************************************************)
MinPlayers == 2
HandSize == 7
StartingLife == 20

(***************************************************************************)
(* Card & fragment model (card.rs).                                        *)
(***************************************************************************)
\* A key of Card::fragments that is not present in the HashMap.
NoFragment == [variant |-> "Absent"]

CreatureFragment(p, t, sick) ==
    [variant |-> "Creature", stats |-> [power |-> p, toughness |-> t],
     summoning_sickness |-> sick]

TappableFragment(t) == [variant |-> "Tappable", tapped |-> t]

\* struct Card.  uid and owner are not fields of the Rust struct: they name
\* the Rust value itself (which clone of which deck card this is), so that a
\* move between zones can be told from a copy.
Card(nm, types, c, cre, tap) ==
    [name |-> nm, card_types |-> types, cost |-> c,
     fragments |-> [Creature |-> cre, Tappable |-> tap],
     uid |-> 0, owner |-> 0]

forest == Card("Forest", <<"Land">>, 0, NoFragment, TappableFragment(FALSE))

grizzly_bears ==
    Card("Grizzly Bears", <<"Creature">>, 2,
         CreatureFragment(2, 2, FALSE), TappableFragment(FALSE))

is_type(card, t) == \E i \in DOMAIN card.card_types : card.card_types[i] = t

(***************************************************************************)
(* Capability modules (creature.rs, tappable.rs).                          *)
(***************************************************************************)
is_creature(card) ==
    \/ \E i \in DOMAIN card.card_types : card.card_types[i] = "Creature"
    \/ card.fragments.Creature # NoFragment

creature_stats(card) ==
    LET f == card.fragments.Creature
    IN  IF f.variant = "Creature" THEN <<f.stats>> ELSE <<>>

\* .map(|stats| stats.power as i32).unwrap_or(0)
power_or_0(card) ==
    LET s == creature_stats(card) IN IF s = <<>> THEN 0 ELSE s[1].power

\* .map(|stats| stats.toughness as i32).unwrap_or(0)
toughness_or_0(card) ==
    LET s == creature_stats(card) IN IF s = <<>> THEN 0 ELSE s[1].toughness

has_summoning_sickness(card) ==
    LET f == card.fragments.Creature
    IN  IF f.variant = "Creature" THEN f.summoning_sickness ELSE FALSE

set_summoning_sickness(card, value) ==
    LET f == card.fragments.Creature
    IN  IF f.variant = "Creature"
        THEN [card EXCEPT !.fragments.Creature.summoning_sickness = value]
        ELSE card

is_tapped(card) ==
    LET f == card.fragments.Tappable
    IN  IF f.variant = "Tappable" THEN f.tapped ELSE FALSE

\* tappable::is_tappable
is_tappable(card) == card.fragments.Tappable.variant # "Absent"

\* a faulty set_tapped: a card without the fragment is given one
set_tapped_attaches(card, value) ==
    [card EXCEPT !.fragments.Tappable = TappableFragment(value)]

set_tapped(card, value) ==
    LET f == card.fragments.Tappable
    IN  IF f.variant = "Tappable"
        THEN [card EXCEPT !.fragments.Tappable.tapped = value]
        ELSE card

(***************************************************************************)
(* Sequence helpers standing for Vec operations.                           *)
(***************************************************************************)
\* Vec::remove(pos), pos 0-based
VecRemove(v, pos) ==
    [i \in 1..(Len(v) - 1) |-> IF i <= pos THEN v[i] ELSE v[i + 1]]

\* iter().position(pred): the set of 0-based positions satisfying P, and
\* its least element when there is one
MinOf(S) == CHOOSE x \in S : \A y \in S : x <= y

(***************************************************************************)
(* Decks handed to GameState::new.                                         *)
(***************************************************************************)
\* Deck::example is 29 forests and 31 grizzly bears.  The decks below keep
\* the two card definitions and add cards that differ from them in one field
\* each (Card's fields are public, a Deck is any Vec<Card>); each deck holds
\* HandSize + 2 cards, so that every player plays two whole turns, but for
\* DeckShort, which holds fewer cards than a hand.
elf == [grizzly_bears EXCEPT !.name = "Elf", !.cost = 1,
           !.fragments.Creature.stats = [power |-> 1, toughness |-> 1]]

\* a creature whose single hit is lethal
colossus == [elf EXCEPT !.name = "Colossus",
               !.fragments.Creature.stats = [power |-> 20, toughness |-> 20]]

\* creatures that cost nothing
sprite == [elf EXCEPT !.name = "Sprite", !.cost = 0]

ogre == [sprite EXCEPT !.name = "Ogre",
            !.fragments.Creature.stats = [power |-> 2, toughness |-> 2]]

\* tagged Creature, carrying no fragment at all
token == Card("Token", <<"Creature">>, 0, NoFragment, NoFragment)

\* carrying a creature fragment, not tagged Creature
spirit == [elf EXCEPT !.name = "Spirit", !.card_types = <<>>]

\* tagged Land and Creature at once (type_tags is a set of tags)
dryad == [elf EXCEPT !.name = "Dryad", !.card_types = <<"Land", "Creature">>]

\* tagged Land, carrying no tappable fragment
wastes == Card("Wastes", <<"Land">>, 0, NoFragment, NoFragment)

Repeat(card, n) == [i \in 1..n |-> card]

DeckElf == Repeat(forest, 8) \o <<elf>>
DeckColossus == Repeat(forest, 8) \o <<colossus>>
DeckSwarm == Repeat(sprite, 8) \o <<ogre>>
DeckElves == Repeat(elf, 8) \o <<forest>>
DeckToken == Repeat(forest, 8) \o <<token>>
DeckSpirit == Repeat(forest, 8) \o <<spirit>>
DeckShort == <<forest, forest, elf>>

Decks == {DeckElf, DeckColossus, DeckSwarm, DeckElves, DeckToken, DeckSpirit,
          DeckShort}

\* the decks of the matches the server's entry points are explored on
ServerDecks == {DeckElf}

\* library.shuffle(&mut rng): every arrangement of the deck's cards
Count(s, x) == Cardinality({i \in DOMAIN s : s[i] = x})

Shuffles(cards) ==
    LET kinds == {cards[i] : i \in DOMAIN cards}
    IN  {s \in [DOMAIN cards -> kinds] :
            \A k \in kinds : Count(s, k) = Count(cards, k)}

(***************************************************************************)
(* State: struct GameState (game.rs), plus the bookkeeping of the model.   *)
(***************************************************************************)
VARIABLES
    players,                      \* Vec<Player>: [life, zones]
    current_player_index,         \* 0-based
    turns,
    step,                         \* GameStep
    attacking_creatures,          \* Vec<usize>
    blocking_map,                 \* HashMap<usize, usize>: blocker -> attacker
    auto_play,
    waiting_for_main_decision,
    waiting_for_attack_decision,
    waiting_for_block_decision,
    declares,                     \* calls of the decision entry points so far
    cast_log,                     \* history: [owner, uid, turn] of every cast
    panic,                        \* history: some battlefield[i] had i >= len
    skipped,                      \* history: the positions the last operation
                                  \* passed over as out of range
    lock,                         \* Mutex<GameState>: the request holding it
    requests                      \* the handlers of the service in progress

vars == <<players, current_player_index, turns, step, attacking_creatures,
          blocking_map, auto_play, waiting_for_main_decision,
          waiting_for_attack_decision, waiting_for_block_decision, declares,
          cast_log, panic, skipped>>

\* the state of the service around the match
server == <<lock, requests>>

\* the mutex is free
Unlocked == 0

\* no request of the service is in progress
NoRequests ==
    /\ lock = Unlocked
    /\ requests = <<>>

\* a call taken as one step, with no request of the service in progress
Atomic == UNCHANGED server

GameSteps == {"StartTurn", "Untap", "Upkeep", "Draw", "Main",
              "DeclareAttackers", "DeclareBlockers", "AssignDamage",
              "EndTurn", "GameOver"}

ZoneNames == {"Library", "Hand", "Battlefield", "Graveyard", "Exile"}

EmptyMap == [k \in {} |-> 0]

\* a faulty Player::new: one card short of a hand is dealt
PlayerNewSix(owner, shuffled) ==
    LET n == Len(shuffled)
        h == IF n < HandSize - 1 THEN n ELSE HandSize - 1
        lib == [i \in 1..n |-> [shuffled[i] EXCEPT !.uid = i, !.owner = owner]]
    IN  [life |-> StartingLife,
         zones |-> [Library |-> SubSeq(lib, 1, n - h),
                    Hand |-> [i \in 1..h |-> lib[n + 1 - i]],
                    Battlefield |-> <<>>,
                    Graveyard |-> <<>>,
                    Exile |-> <<>>]]

\* Player::new: the shuffled clone of the deck, the last HandSize cards of
\* which are popped into the hand one by one
PlayerNew(owner, shuffled) ==
    LET n == Len(shuffled)
        h == IF n < HandSize THEN n ELSE HandSize
        lib == [i \in 1..n |-> [shuffled[i] EXCEPT !.uid = i, !.owner = owner]]
    IN  [life |-> StartingLife,
         zones |-> [Library |-> SubSeq(lib, 1, n - h),
                    Hand |-> [i \in 1..h |-> lib[n + 1 - i]],
                    Battlefield |-> <<>>,
                    Graveyard |-> <<>>,
                    Exile |-> <<>>]]

\* GameState::new(player_count, deck)
GameStateNew(player_count, deck) ==
    \E libs \in [1..(IF player_count < MinPlayers THEN MinPlayers ELSE player_count)
                    -> Shuffles(deck)] :
        /\ players = [p \in DOMAIN libs |-> PlayerNew(p - 1, libs[p])]
        /\ current_player_index = 0
        /\ turns = 0
        /\ step = "StartTurn"
        /\ attacking_creatures = <<>>
        /\ blocking_map = EmptyMap
        /\ auto_play = TRUE
        /\ waiting_for_main_decision = FALSE
        /\ waiting_for_attack_decision = FALSE
        /\ waiting_for_block_decision = FALSE
        /\ declares = 0
        /\ cast_log = {}
        /\ panic = FALSE
        /\ skipped = {}

\* a match of the engine: GameState::new(player_count, &deck)
InitEngine ==
    /\ \E player_count \in 0..MaxPlayerCount, deck \in Decks :
          GameStateNew(player_count, deck)
    /\ NoRequests

\* the server's match: GameState::new_default() is Self::new(2, &deck)
Init ==
    /\ \E deck \in ServerDecks : GameStateNew(2, deck)
    /\ NoRequests

\* current_player / zones()
cur == current_player_index + 1
CurZones == players[cur].zones
Battlefield == CurZones.Battlefield

\* zones_mut().get_mut(zone): the current player's zone replaced
WithZone(ps, zone, cards) == [ps EXCEPT ![cur].zones[zone] = cards]

(***************************************************************************)
(* GameState::step, one operator per arm of the match.                     *)
(***************************************************************************)
flags == <<auto_play, waiting_for_main_decision, waiting_for_attack_decision,
           waiting_for_block_decision>>

combat == <<attacking_creatures, blocking_map>>

\* an arm that indexes no battlefield position
NoIndexing == /\ panic' = panic
              /\ skipped' = {}

\* a faulty StartTurn arm: the counter is advanced by two
StepStartTurnCountsTwice ==
    /\ step = "StartTurn"
    /\ turns' = turns + 2
    /\ step' = "Untap"
    /\ NoIndexing
    /\ UNCHANGED <<players, current_player_index, combat, flags, declares,
                   cast_log>>

StepStartTurn ==
    /\ step = "StartTurn"
    /\ turns' = turns + 1
    /\ step' = "Untap"
    /\ NoIndexing
    /\ UNCHANGED <<players, current_player_index, combat, flags, declares,
                   cast_log>>

\* the Untap arm's loop over the current player's battlefield
UntapAll(bf) ==
    [i \in DOMAIN bf |-> IF is_tapped(bf[i]) THEN set_tapped(bf[i], FALSE)
                                             ELSE bf[i]]

\* a faulty Untap arm: it untaps the battlefield of every player
StepUntapEveryone ==
    /\ step = "Untap"
    /\ players' = [p \in DOMAIN players |->
                      [players[p] EXCEPT !.zones.Battlefield = UntapAll(@)]]
    /\ step' = "Upkeep"
    /\ NoIndexing
    /\ UNCHANGED <<current_player_index, turns, combat, flags, declares,
                   cast_log>>

StepUntap ==
    /\ step = "Untap"
    /\ players' = WithZone(players, "Battlefield", UntapAll(Battlefield))
    /\ step' = "Upkeep"
    /\ NoIndexing
    /\ UNCHANGED <<current_player_index, turns, combat, flags, declares,
                   cast_log>>

\* the Upkeep arm's loop over the current player's battlefield
ClearSickness(bf) ==
    [i \in DOMAIN bf |-> set_summoning_sickness(bf[i], FALSE)]

\* a faulty Upkeep arm: it leaves for Main and skips Draw
StepUpkeepSkipsDraw ==
    /\ step = "Upkeep"
    /\ players' = WithZone(players, "Battlefield", ClearSickness(Battlefield))
    /\ step' = "Main"
    /\ NoIndexing
    /\ UNCHANGED <<current_player_index, turns, combat, flags, declares,
                   cast_log>>

\* a faulty Upkeep arm: it clears the sickness of every player's creatures
StepUpkeepEveryone ==
    /\ step = "Upkeep"
    /\ players' = [p \in DOMAIN players |->
                      [players[p] EXCEPT !.zones.Battlefield = ClearSickness(@)]]
    /\ step' = "Draw"
    /\ NoIndexing
    /\ UNCHANGED <<current_player_index, turns, combat, flags, declares,
                   cast_log>>

StepUpkeep ==
    /\ step = "Upkeep"
    /\ players' = WithZone(players, "Battlefield", ClearSickness(Battlefield))
    /\ step' = "Draw"
    /\ NoIndexing
    /\ UNCHANGED <<current_player_index, turns, combat, flags, declares,
                   cast_log>>

\* a faulty draw: the card is copied to the hand and stays in the library
DrawCardCopies(z) ==
    [z EXCEPT !.Hand = Append(z.Hand, z.Library[Len(z.Library)])]

\* a faulty draw: the card is taken from the bottom of the library
DrawCardBottom(z) ==
    [z EXCEPT !.Library = Tail(z.Library),
              !.Hand = Append(z.Hand, z.Library[1])]

\* the Draw arm: library.pop(), then hand.push(card)
DrawCard(z) ==
    LET n == Len(z.Library)
    IN  [z EXCEPT !.Library = SubSeq(z.Library, 1, n - 1),
                  !.Hand = Append(z.Hand, z.Library[n])]

\* a faulty Draw arm: the match ends when the last card would be drawn
StepDrawEndsOnLastCard ==
    /\ step = "Draw"
    /\ IF Len(CurZones.Library) > 1
       THEN /\ players' = [players EXCEPT ![cur].zones = DrawCard(CurZones)]
            /\ step' = "Main"
       ELSE /\ players' = players
            /\ step' = "GameOver"
    /\ NoIndexing
    /\ UNCHANGED <<current_player_index, turns, combat, flags, declares,
                   cast_log>>

StepDraw ==
    /\ step = "Draw"
    /\ IF Len(CurZones.Library) > 0
       THEN /\ players' = [players EXCEPT ![cur].zones = DrawCard(CurZones)]
            /\ step' = "Main"
       ELSE /\ players' = players
            /\ step' = "GameOver"
    /\ NoIndexing
    /\ UNCHANGED <<current_player_index, turns, combat, flags, declares,
                   cast_log>>

(***************************************************************************)
(* Main.                                                                   *)
(***************************************************************************)
\* a faulty land play: every Land-tagged card of the hand is played
PlayAllLands(z) ==
    [z EXCEPT !.Hand = SelectSeq(z.Hand, LAMBDA c : ~is_type(c, "Land")),
              !.Battlefield =
                  @ \o SelectSeq(z.Hand, LAMBDA c : is_type(c, "Land"))]

\* "Play up to one land": the first Land-tagged card of the hand
PlayLand(z) ==
    LET lands == {i \in DOMAIN z.Hand : is_type(z.Hand[i], "Land")}
    IN  IF lands = {} THEN z
        ELSE [z EXCEPT !.Hand = VecRemove(z.Hand, MinOf(lands) - 1),
                       !.Battlefield = Append(z.Battlefield, z.Hand[MinOf(lands)])]

\* untapped Land-tagged battlefield cards
available_mana(bf) ==
    Cardinality({i \in DOMAIN bf : is_type(bf[i], "Land") /\ ~is_tapped(bf[i])})

\* a faulty choice: the first creature of the hand, whatever it costs
cast_pos_any(hand, mana) ==
    LET ok == {i \in DOMAIN hand : is_creature(hand[i])}
    IN  IF ok = {} THEN <<>> ELSE <<MinOf(ok) - 1>>

\* a faulty choice: the last affordable creature of the hand
cast_pos_last(hand, mana) ==
    LET ok == {i \in DOMAIN hand : is_creature(hand[i]) /\ hand[i].cost <= mana}
    IN  IF ok = {} THEN <<>>
        ELSE <<(CHOOSE x \in ok : \A y \in ok : y <= x) - 1>>

\* hand.iter().position(|card| is_creature(card) && card.cost <= available_mana)
cast_pos(hand, mana) ==
    LET ok == {i \in DOMAIN hand : is_creature(hand[i]) /\ hand[i].cost <= mana}
    IN  IF ok = {} THEN <<>> ELSE <<MinOf(ok) - 1>>

\* a faulty payment: every Land-tagged card is tapped, whatever the cost
TapEveryLand(bf, i, need) ==
    [k \in DOMAIN bf |->
        IF is_type(bf[k], "Land") THEN set_tapped(bf[k], TRUE) ELSE bf[k]]

\* "Tap lands to pay": walk the battlefield from position i (1-based) on
RECURSIVE TapLands(_, _, _)
TapLands(bf, i, need) ==
    IF i > Len(bf) THEN bf
    ELSE IF is_type(bf[i], "Land") /\ ~is_tapped(bf[i])
         THEN IF need = 0 THEN bf
              ELSE TapLands([bf EXCEPT ![i] = set_tapped(bf[i], TRUE)],
                            i + 1, need - 1)
         ELSE TapLands(bf, i + 1, need)

\* a faulty cast: the card is not marked with summoning sickness
CastOneUnmarked(z, pos) ==
    LET card == z.Hand[pos + 1]
    IN  [z EXCEPT !.Hand = VecRemove(z.Hand, pos),
                  !.Battlefield =
                      Append(TapLands(z.Battlefield, 1, card.cost), card)]

\* one pass of the cast loop's body for the hand card at 0-based pos
CastOne(z, pos) ==
    LET card == set_summoning_sickness(z.Hand[pos + 1], TRUE)
    IN  [z EXCEPT !.Hand = VecRemove(z.Hand, pos),
                  !.Battlefield =
                      Append(TapLands(z.Battlefield, 1, card.cost), card)]

\* a faulty cast loop: it stops after the first cast
CastLoopOnce(z) ==
    LET pos == cast_pos(z.Hand, available_mana(z.Battlefield))
    IN  IF pos = <<>> THEN z ELSE CastOne(z, pos[1])

\* "Cast as many creatures as possible until there is no more mana"
RECURSIVE CastLoop(_)
CastLoop(z) ==
    LET pos == cast_pos(z.Hand, available_mana(z.Battlefield))
    IN  IF pos = <<>> THEN z ELSE CastLoop(CastOne(z, pos[1]))

\* the rounds of the cast loop that found a cast_pos: the available_mana
\* counted in the round and the card it cast
RECURSIVE CastMoments(_)
CastMoments(z) ==
    LET mana == available_mana(z.Battlefield)
        pos == cast_pos(z.Hand, mana)
    IN  IF pos = <<>> THEN <<>>
        ELSE <<[available_mana |-> mana, card |-> z.Hand[pos[1] + 1]]>>
                 \o CastMoments(CastOne(z, pos[1]))

\* the cards the cast loop moved: those behind the land play's battlefield
CastCards(before, after) ==
    {after.Battlefield[i] :
        i \in (Len(before.Battlefield) + 1)..Len(after.Battlefield)}

\* a faulty Main arm: in manual mode it does not wait for the decision
StepMainNeverSuspends ==
    /\ step = "Main"
    /\ IF auto_play
       THEN LET landed == PlayLand(CurZones)
                z == CastLoop(landed)
            IN  /\ players' = [players EXCEPT ![cur].zones = z]
                /\ cast_log' = cast_log \cup
                       {[owner |-> c.owner, uid |-> c.uid, turn |-> turns] :
                            c \in CastCards(landed, z)}
       ELSE UNCHANGED <<players, cast_log>>
    /\ step' = "DeclareAttackers"
    /\ NoIndexing
    /\ UNCHANGED <<current_player_index, turns, combat, flags, declares>>

StepMain ==
    /\ step = "Main"
    /\ IF auto_play
       THEN LET landed == PlayLand(CurZones)
                z == CastLoop(landed)
            IN  /\ players' = [players EXCEPT ![cur].zones = z]
                /\ cast_log' = cast_log \cup
                       {[owner |-> c.owner, uid |-> c.uid, turn |-> turns] :
                            c \in CastCards(landed, z)}
                /\ step' = "DeclareAttackers"
                /\ UNCHANGED waiting_for_main_decision
       ELSE IF ~waiting_for_main_decision
            THEN /\ waiting_for_main_decision' = TRUE
                 /\ UNCHANGED <<players, step, cast_log>>
            ELSE /\ step' = "DeclareAttackers"
                 /\ UNCHANGED <<players, waiting_for_main_decision, cast_log>>
    /\ NoIndexing
    /\ UNCHANGED <<current_player_index, turns, combat, auto_play,
                   waiting_for_attack_decision, waiting_for_block_decision,
                   declares>>

(***************************************************************************)
(* Indexing.  battlefield[i] panics when i >= battlefield.len(); the model  *)
(* reads a placeholder there and records the panic.                        *)
(***************************************************************************)
OutOfBounds == Card("<index out of bounds>", <<>>, 0, NoFragment, NoFragment)

Index(bf, i) == IF i < Len(bf) THEN bf[i + 1] ELSE OutOfBounds

Panics(bf, i) == i >= Len(bf)

(***************************************************************************)
(* DeclareAttackers.                                                       *)
(***************************************************************************)
\* a faulty selection: summoning sickness is not looked at
AutoAttackersSick(bf) ==
    SelectSeq([i \in 1..Len(bf) |-> i - 1],
              LAMBDA i : /\ is_type(bf[i + 1], "Creature")
                         /\ ~is_tapped(bf[i + 1]))

\* "Auto-attack": the 0-based positions, ascending
AutoAttackers(bf) ==
    SelectSeq([i \in 1..Len(bf) |-> i - 1],
              LAMBDA i : /\ is_type(bf[i + 1], "Creature")
                         /\ ~has_summoning_sickness(bf[i + 1])
                         /\ ~is_tapped(bf[i + 1]))

Elems(seq) == {seq[k] : k \in DOMAIN seq}

\* "Tap all attacking creatures": the positions that pass
\* `if idx < battlefield.len()` and are indexed
TapTargets(bf, idxs) == {p \in Elems(idxs) : p < Len(bf)}

TapAttackers(bf, idxs) ==
    [i \in DOMAIN bf |->
        IF (i - 1) \in TapTargets(bf, idxs) THEN set_tapped(bf[i], TRUE)
                                            ELSE bf[i]]

\* the indexing of the tap loop, in the history variables
TapIndexing(bf, idxs) ==
    /\ panic' = (panic \/ \E p \in TapTargets(bf, idxs) : Panics(bf, p))
    /\ skipped' = Elems(idxs) \ TapTargets(bf, idxs)

StepDeclareAttackers ==
    /\ step = "DeclareAttackers"
    /\ IF auto_play
       THEN /\ attacking_creatures' = AutoAttackers(Battlefield)
            /\ players' = WithZone(players, "Battlefield",
                              TapAttackers(Battlefield, AutoAttackers(Battlefield)))
            /\ TapIndexing(Battlefield, AutoAttackers(Battlefield))
            /\ step' = "DeclareBlockers"
            /\ UNCHANGED waiting_for_attack_decision
       ELSE IF ~waiting_for_attack_decision
            THEN /\ waiting_for_attack_decision' = TRUE
                 /\ NoIndexing
                 /\ UNCHANGED <<players, step, attacking_creatures>>
            ELSE /\ step' = "DeclareBlockers"
                 /\ NoIndexing
                 /\ UNCHANGED <<players, attacking_creatures,
                                waiting_for_attack_decision>>
    /\ UNCHANGED <<current_player_index, turns, blocking_map, auto_play,
                   waiting_for_main_decision, waiting_for_block_decision,
                   declares, cast_log>>

(***************************************************************************)
(* DeclareBlockers.                                                        *)
(***************************************************************************)
\* the blocker the inner loop finds for the attacker at position a, if any
FindBlocker(bf, attackers, used, a) ==
    LET cands == {b \in 0..(Len(bf) - 1) :
                     /\ b \notin used
                     /\ b \notin Elems(attackers)
                     /\ power_or_0(bf[b + 1]) >= toughness_or_0(Index(bf, a))}
    IN  IF cands = {} THEN <<>> ELSE <<MinOf(cands)>>

\* the body of the outer loop for attacker position a;
\* acc = [used, decisions, panic, skipped]
BlockOne(bf, attackers, a, acc) ==
    IF a >= Len(bf) THEN [acc EXCEPT !.skipped = @ \cup {a}]
    ELSE LET b == FindBlocker(bf, attackers, acc.used, a)
             ix == [acc EXCEPT !.panic = @ \/ Panics(bf, a)]
         IN  IF b = <<>> THEN ix
             ELSE [ix EXCEPT !.used = @ \cup {b[1]},
                             !.decisions = Append(@, <<b[1], a>>)]

\* blocking_decisions, from attacker k on
RECURSIVE BlockDecisions(_, _, _, _)
BlockDecisions(bf, attackers, k, acc) ==
    IF k > Len(attackers) THEN acc
    ELSE BlockDecisions(bf, attackers, k + 1,
                        BlockOne(bf, attackers, attackers[k], acc))

\* HashMap::insert of every decision, in order
RECURSIVE InsertAll(_, _, _)
InsertAll(map, decisions, k) ==
    IF k > Len(decisions) THEN map
    ELSE InsertAll([b \in DOMAIN map \cup {decisions[k][1]} |->
                       IF b = decisions[k][1] THEN decisions[k][2] ELSE map[b]],
                   decisions, k + 1)

AutoBlocks(bf, attackers) ==
    BlockDecisions(bf, attackers, 1,
                   [used |-> {}, decisions |-> <<>>, panic |-> FALSE,
                    skipped |-> {}])

\* a faulty DeclareBlockers arm: resumed in manual mode, it skips the damage
StepDeclareBlockersSkipsDamage ==
    /\ step = "DeclareBlockers"
    /\ IF auto_play
       THEN LET blocks == AutoBlocks(Battlefield, attacking_creatures)
            IN  /\ blocking_map' = InsertAll(EmptyMap, blocks.decisions, 1)
                /\ panic' = (panic \/ blocks.panic)
                /\ skipped' = blocks.skipped
                /\ step' = "AssignDamage"
                /\ UNCHANGED waiting_for_block_decision
       ELSE IF ~waiting_for_block_decision
            THEN /\ waiting_for_block_decision' = TRUE
                 /\ NoIndexing
                 /\ UNCHANGED <<step, blocking_map>>
            ELSE /\ step' = "EndTurn"
                 /\ NoIndexing
                 /\ UNCHANGED <<blocking_map, waiting_for_block_decision>>
    /\ UNCHANGED <<players, current_player_index, turns, attacking_creatures,
                   auto_play, waiting_for_main_decision,
                   waiting_for_attack_decision, declares, cast_log>>

StepDeclareBlockers ==
    /\ step = "DeclareBlockers"
    /\ IF auto_play
       THEN LET blocks == AutoBlocks(Battlefield, attacking_creatures)
            IN  /\ blocking_map' = InsertAll(EmptyMap, blocks.decisions, 1)
                /\ panic' = (panic \/ blocks.panic)
                /\ skipped' = blocks.skipped
                /\ step' = "AssignDamage"
                /\ UNCHANGED waiting_for_block_decision
       ELSE IF ~waiting_for_block_decision
            THEN /\ waiting_for_block_decision' = TRUE
                 /\ NoIndexing
                 /\ UNCHANGED <<step, blocking_map>>
            ELSE /\ step' = "AssignDamage"
                 /\ NoIndexing
                 /\ UNCHANGED <<blocking_map, waiting_for_block_decision>>
    /\ UNCHANGED <<players, current_player_index, turns, attacking_creatures,
                   auto_play, waiting_for_main_decision,
                   waiting_for_attack_decision, declares, cast_log>>

(***************************************************************************)
(* AssignDamage.                                                           *)
(***************************************************************************)
\* blocking_map.iter().find(|(_, attacker)| attacker == attacker_idx): the
\* first entry in the HashMap's iteration order that names the attacker.  The
\* order is unspecified, so every choice of one blocker per blocked attacker
\* is an outcome; the map is not changed during the pass, so the same
\* attacker always finds the same blocker.
Finds(map) ==
    {f \in [{map[b] : b \in DOMAIN map} -> DOMAIN map] :
        \A a \in DOMAIN f : map[f[a]] = a}

\* a faulty blocked branch: the attacker strikes first, a blocker that is
\* destroyed deals nothing
FightFirstStrike(bf, a, b, acc) ==
    IF b < Len(bf)
    THEN [acc EXCEPT
            !.panic = @ \/ Panics(bf, b),
            !.destroy =
               @ \o (IF power_or_0(Index(bf, a)) >= toughness_or_0(Index(bf, b))
                     THEN <<b>>
                     ELSE IF power_or_0(Index(bf, b)) >= toughness_or_0(Index(bf, a))
                          THEN <<a>> ELSE <<>>)]
    ELSE [acc EXCEPT !.skipped = @ \cup {b}]

\* the blocked branch for attacker a and the blocker b found for it
Fight(bf, a, b, acc) ==
    IF b < Len(bf)
    THEN [acc EXCEPT
            !.panic = @ \/ Panics(bf, b),
            !.destroy =
               @ \o (IF power_or_0(Index(bf, a)) >= toughness_or_0(Index(bf, b))
                     THEN <<b>> ELSE <<>>)
                 \o (IF power_or_0(Index(bf, b)) >= toughness_or_0(Index(bf, a))
                     THEN <<a>> ELSE <<>>)]
    ELSE [acc EXCEPT !.skipped = @ \cup {b}]

\* a faulty first pass: the attacker position is indexed without the
\* `attacker_idx >= battlefield.len()` guard
CombatOneUnchecked(bf, found, a, acc) ==
    LET ix == [acc EXCEPT !.panic = @ \/ Panics(bf, a)]
    IN  IF a \in DOMAIN found
        THEN Fight(bf, a, found[a], ix)
        ELSE [ix EXCEPT !.damage = @ + power_or_0(Index(bf, a))]

\* the body of the first pass for attacker position a;
\* acc = [destroy, damage, panic, skipped]
CombatOne(bf, found, a, acc) ==
    IF a >= Len(bf) THEN [acc EXCEPT !.skipped = @ \cup {a}]
    ELSE LET ix == [acc EXCEPT !.panic = @ \/ Panics(bf, a)]
         IN  IF a \in DOMAIN found
             THEN Fight(bf, a, found[a], ix)
             ELSE [ix EXCEPT !.damage = @ + power_or_0(Index(bf, a))]

\* "First pass: calculate damage", from attacker k on
RECURSIVE FirstPass(_, _, _, _, _)
FirstPass(bf, attackers, found, k, acc) ==
    IF k > Len(attackers) THEN acc
    ELSE FirstPass(bf, attackers, found, k + 1,
                   CombatOne(bf, found, attackers[k], acc))

\* creatures_to_destroy.sort_by(|a, b| b.cmp(a)); creatures_to_destroy.dedup()
RECURSIVE Descending(_)
Descending(S) ==
    IF S = {} THEN <<>>
    ELSE LET m == CHOOSE x \in S : \A y \in S : y <= x
         IN  <<m>> \o Descending(S \ {m})

\* a faulty sort: the positions in descending order, none dropped
RECURSIVE SortOnly(_)
SortOnly(destroy) ==
    IF destroy = <<>> THEN <<>>
    ELSE LET k == CHOOSE i \in DOMAIN destroy :
                      \A j \in DOMAIN destroy : destroy[j] <= destroy[i]
         IN  <<destroy[k]>> \o SortOnly(VecRemove(destroy, k - 1))

SortDedup(destroy) == Descending(Elems(destroy))

\* the body of the removal loop; acc = [bf, cards, panic, skipped]
RemoveOne(idx, acc) ==
    IF idx < Len(acc.bf)
    THEN [acc EXCEPT !.bf = VecRemove(acc.bf, idx),
                     !.cards = Append(@, Index(acc.bf, idx)),
                     !.panic = @ \/ Panics(acc.bf, idx)]
    ELSE [acc EXCEPT !.skipped = @ \cup {idx}]

RECURSIVE RemoveAll(_, _, _)
RemoveAll(idxs, k, acc) ==
    IF k > Len(idxs) THEN acc
    ELSE RemoveAll(idxs, k + 1, RemoveOne(idxs[k], acc))

\* a faulty arm: the damage goes to the next player only
AssignDamageNextPlayer(ps, ci, attackers, found) ==
    LET bf == ps[ci + 1].zones.Battlefield
        pass == FirstPass(bf, attackers, found, 1,
                          [destroy |-> <<>>, damage |-> 0, panic |-> FALSE,
                           skipped |-> {}])
        rem == RemoveAll(SortDedup(pass.destroy), 1,
                         [bf |-> bf, cards |-> <<>>, panic |-> pass.panic,
                          skipped |-> pass.skipped])
    IN  [players |->
            [p \in DOMAIN ps |->
                IF p = ci + 1
                THEN [ps[p] EXCEPT !.zones.Battlefield = rem.bf,
                                   !.zones.Graveyard = @ \o rem.cards]
                ELSE IF p = ((ci + 1) % Len(ps)) + 1
                     THEN [ps[p] EXCEPT !.life = @ - pass.damage]
                     ELSE ps[p]],
         damage |-> pass.damage,
         panic |-> rem.panic,
         skipped |-> rem.skipped]

\* the whole arm up to the clearing of the records, for one outcome of the
\* finds: the players, and the indexing history
AssignDamage(ps, ci, attackers, found) ==
    LET bf == ps[ci + 1].zones.Battlefield
        pass == FirstPass(bf, attackers, found, 1,
                          [destroy |-> <<>>, damage |-> 0, panic |-> FALSE,
                           skipped |-> {}])
        rem == RemoveAll(SortDedup(pass.destroy), 1,
                         [bf |-> bf, cards |-> <<>>, panic |-> pass.panic,
                          skipped |-> pass.skipped])
    IN  [players |->
            [p \in DOMAIN ps |->
                IF p = ci + 1
                THEN [ps[p] EXCEPT !.zones.Battlefield = rem.bf,
                                   !.zones.Graveyard = @ \o rem.cards]
                ELSE [ps[p] EXCEPT !.life = @ - pass.damage]],
         damage |-> pass.damage,
         panic |-> rem.panic,
         skipped |-> rem.skipped]

\* a faulty test: a life total of exactly 0 does not end the match
anyone_dead_below_zero(ps) == \E p \in DOMAIN ps : ps[p].life < 0

anyone_dead(ps) == \E p \in DOMAIN ps : ps[p].life <= 0

\* a faulty arm: the attacker and blocker records are left as they are
StepAssignDamageKeepsRecords ==
    /\ step = "AssignDamage"
    /\ \E found \in Finds(blocking_map) :
          LET out == AssignDamage(players, current_player_index,
                                  attacking_creatures, found)
          IN  /\ players' = out.players
              /\ panic' = (panic \/ out.panic)
              /\ skipped' = out.skipped
    /\ step' = IF anyone_dead(players') THEN "GameOver" ELSE "EndTurn"
    /\ UNCHANGED <<current_player_index, turns, combat, flags, declares,
                   cast_log>>

StepAssignDamage ==
    /\ step = "AssignDamage"
    /\ \E found \in Finds(blocking_map) :
          LET out == AssignDamage(players, current_player_index,
                                  attacking_creatures, found)
          IN  /\ players' = out.players
              /\ panic' = (panic \/ out.panic)
              /\ skipped' = out.skipped
    /\ attacking_creatures' = <<>>
    /\ blocking_map' = EmptyMap
    /\ step' = IF anyone_dead(players') THEN "GameOver" ELSE "EndTurn"
    /\ UNCHANGED <<current_player_index, turns, flags, declares, cast_log>>

\* a faulty EndTurn arm: the turn is never passed, play resumes in Main
StepEndTurnReplaysMain ==
    /\ step = "EndTurn"
    /\ step' = "Main"
    /\ NoIndexing
    /\ UNCHANGED <<players, current_player_index, turns, combat, flags,
                   declares, cast_log>>

\* a faulty EndTurn arm: the turn alternates between the first two players
StepEndTurnFirstTwo ==
    /\ step = "EndTurn"
    /\ current_player_index' = (current_player_index + 1) % MinPlayers
    /\ step' = "StartTurn"
    /\ NoIndexing
    /\ UNCHANGED <<players, turns, combat, flags, declares, cast_log>>

StepEndTurn ==
    /\ step = "EndTurn"
    /\ current_player_index' = (current_player_index + 1) % Len(players)
    /\ step' = "StartTurn"
    /\ NoIndexing
    /\ UNCHANGED <<players, turns, combat, flags, declares, cast_log>>

\* a faulty GameOver arm: the match starts another turn
StepGameOverRestarts ==
    /\ step = "GameOver"
    /\ step' = "StartTurn"
    /\ NoIndexing
    /\ UNCHANGED <<players, current_player_index, turns, combat, flags,
                   declares, cast_log>>

StepGameOver ==
    /\ step = "GameOver"
    /\ UNCHANGED vars

is_game_over == step = "GameOver"

\* GameState::step
Step ==
    \/ StepStartTurn
    \/ StepUntap
    \/ StepUpkeep
    \/ StepDraw
    \/ StepMain
    \/ StepDeclareAttackers
    \/ StepDeclareBlockers
    \/ StepAssignDamage
    \/ StepEndTurn
    \/ StepGameOver

(***************************************************************************)
(* The driver: auto_play is a public field, cleared by a driver that wants *)
(* to decide itself; the decision entry points are those of the server.    *)
(***************************************************************************)
ConfigureManual ==
    /\ step = "StartTurn"
    /\ turns = 0
    /\ auto_play
    /\ auto_play' = FALSE
    /\ UNCHANGED <<players, current_player_index, turns, step, combat,
                   waiting_for_main_decision, waiting_for_attack_decision,
                   waiting_for_block_decision, declares, cast_log, panic,
                   skipped>>
    /\ Atomic

\* the payloads of the two requests: positions up to MaxDeclaredPos, which
\* are valid on a battlefield holding more cards than that and stale or out
\* of range on a shorter one; an attacker list may name a position twice and
\* a blocker map may give one attacker two blockers
Positions == 0..MaxDeclaredPos

AttackerPayloads ==
    {<<>>} \cup {<<a>> : a \in Positions}
           \cup {<<a, b>> : a \in Positions, b \in Positions}

BlockerKeys == Positions \cup {FarPos}

BlockerPayloads ==
    UNION {[D -> Positions] : D \in {X \in SUBSET BlockerKeys : Cardinality(X) <= 2}}

\* a faulty post_declare_attackers: the attackers are recorded, not tapped
DeclareAttackersUntapped(positions) ==
    /\ declares < MaxDeclares
    /\ declares' = declares + 1
    /\ attacking_creatures' = positions
    /\ players' = players
    /\ TapIndexing(Battlefield, positions)
    /\ step' = "DeclareBlockers"
    /\ UNCHANGED <<current_player_index, turns, blocking_map, flags, cast_log>>

\* post_declare_attackers
DeclareAttackers(positions) ==
    /\ declares < MaxDeclares
    /\ declares' = declares + 1
    /\ attacking_creatures' = positions
    /\ players' = WithZone(players, "Battlefield",
                           TapAttackers(Battlefield, positions))
    /\ TapIndexing(Battlefield, positions)
    /\ step' = "DeclareBlockers"
    /\ UNCHANGED <<current_player_index, turns, blocking_map, flags, cast_log>>

\* post_declare_blockers
DeclareBlockers(map) ==
    /\ declares < MaxDeclares
    /\ declares' = declares + 1
    /\ blocking_map' = map
    /\ step' = "AssignDamage"
    /\ NoIndexing
    /\ UNCHANGED <<players, current_player_index, turns, attacking_creatures,
                   flags, cast_log>>

\* a step call with no request of the service in progress
StepAtomic ==
    \/ StepStartTurn /\ Atomic
    \/ StepUntap /\ Atomic
    \/ StepUpkeep /\ Atomic
    \/ StepDraw /\ Atomic
    \/ StepMain /\ Atomic
    \/ StepDeclareAttackers /\ Atomic
    \/ StepDeclareBlockers /\ Atomic
    \/ StepAssignDamage /\ Atomic
    \/ StepEndTurn /\ Atomic
    \/ StepGameOver /\ Atomic

\* the requests of the service taken one at a time, each as one step
Next ==
    \/ StepAtomic
    \/ ConfigureManual
    \/ \E positions \in AttackerPayloads : DeclareAttackers(positions) /\ Atomic
    \/ \E map \in BlockerPayloads : DeclareBlockers(map) /\ Atomic

Spec == Init /\ [][Next]_vars

\* the engine alone: step calls, and a driver that may clear auto_play
NextEngine ==
    \/ StepAtomic
    \/ ConfigureManual

SpecEngine == InitEngine /\ [][NextEngine]_vars

\* run to completion (post_game): `while g.step != GameStep::GameOver
\* { g.step(); }` keeps calling step on an auto-play match for as long as it
\* is not over.  This is WF_vars(Step) with ENABLED <<Step>>_vars written
\* out: every arm but GameOver is guarded by the phase alone and changes it.
StepFairness == []<>(~(step # "GameOver")) \/ []<><<Step>>_vars

SpecRun == InitEngine /\ [][StepAtomic]_vars /\ StepFairness

(***************************************************************************)
(* Vocabulary of the properties.                                           *)
(***************************************************************************)
\* the fields of GameState, without the history variables of the model
game == <<players, current_player_index, turns, step, attacking_creatures,
          blocking_map, auto_play, waiting_for_main_decision,
          waiting_for_attack_decision, waiting_for_block_decision>>

\* the cycle of the phases
Successor(ph) ==
    CASE ph = "StartTurn" -> "Untap"
      [] ph = "Untap" -> "Upkeep"
      [] ph = "Upkeep" -> "Draw"
      [] ph = "Draw" -> "Main"
      [] ph = "Main" -> "DeclareAttackers"
      [] ph = "DeclareAttackers" -> "DeclareBlockers"
      [] ph = "DeclareBlockers" -> "AssignDamage"
      [] ph = "AssignDamage" -> "EndTurn"
      [] ph = "EndTurn" -> "StartTurn"
      [] OTHER -> ph

(***************************************************************************)
(* Matches placed in Main, as the engine's tests build them (the fields of *)
(* GameState and Player are public): the first player holds a hand and a   *)
(* battlefield of untapped forests, every player a library of two forests. *)
(***************************************************************************)
ScenarioCards == {forest, grizzly_bears, elf, dryad, wastes}

ScenarioHands ==
    UNION {[1..n -> ScenarioCards] : n \in 0..MaxScenarioHand}

\* Player { life: 20, zones }, every card given its identity
ScenarioPlayer(owner, library, hand, battlefield) ==
    LET all == library \o hand \o battlefield
        own == [i \in DOMAIN all |-> [all[i] EXCEPT !.uid = i, !.owner = owner]]
        l == Len(library)
        h == Len(hand)
    IN  [life |-> StartingLife,
         zones |-> [Library |-> SubSeq(own, 1, l),
                    Hand |-> SubSeq(own, l + 1, l + h),
                    Battlefield |-> SubSeq(own, l + h + 1, Len(own)),
                    Graveyard |-> <<>>,
                    Exile |-> <<>>]]

InitScenario ==
    \E n \in MinPlayers..MaxScenarioPlayers, lands \in 0..MaxScenarioLands,
       hand \in ScenarioHands :
        /\ players =
              [p \in 1..n |->
                  IF p = 1
                  THEN ScenarioPlayer(0, <<forest, forest>>, hand,
                                      Repeat(forest, lands))
                  ELSE ScenarioPlayer(p - 1, <<forest, forest>>, <<>>, <<>>)]
        /\ current_player_index = 0
        /\ turns = 1
        /\ step = "Main"
        /\ attacking_creatures = <<>>
        /\ blocking_map = EmptyMap
        /\ auto_play = TRUE
        /\ waiting_for_main_decision = FALSE
        /\ waiting_for_attack_decision = FALSE
        /\ waiting_for_block_decision = FALSE
        /\ declares = 0
        /\ cast_log = {}
        /\ panic = FALSE
        /\ skipped = {}
        /\ NoRequests

SpecScenario == InitScenario /\ [][StepAtomic]_vars

\* the phase a step call of the cycle must lead to, GameOver included
PhaseAfter ==
    IF step = "Draw" /\ players[cur].zones.Library = <<>> THEN "GameOver"
    ELSE IF step = "AssignDamage" /\ (\E p \in DOMAIN players : players'[p].life <= 0)
         THEN "GameOver"
         ELSE Successor(step)

(***************************************************************************)
(* C1: in auto-play every step call outside GameOver leads to the          *)
(* successor phase of the cycle; the only steps into GameOver are Draw     *)
(* with the active player's library empty and AssignDamage with some       *)
(* player's life at or below 0 after the damage.                           *)
(***************************************************************************)
C1_PhaseCycle ==
    [][(Step /\ auto_play /\ step # "GameOver") => step' = PhaseAfter]_vars

\* a match that combat damage has ended
C1_Witness ==
    /\ auto_play
    /\ step = "GameOver"
    /\ \E p \in DOMAIN players : players[p].life <= 0

(***************************************************************************)
(* C2 as stated: every step call outside GameOver changes the phase, in    *)
(* auto-play and in manual mode alike.                                     *)
(***************************************************************************)
C2_AlwaysAdvances ==
    [][(Step /\ step # "GameOver") => step' # step]_vars

\* the step calls that suspend: manual mode, a decision phase, its waiting
\* flag still clear
Suspends ==
    /\ ~auto_play
    /\ \/ step = "Main" /\ ~waiting_for_main_decision
       \/ step = "DeclareAttackers" /\ ~waiting_for_attack_decision
       \/ step = "DeclareBlockers" /\ ~waiting_for_block_decision

(***************************************************************************)
(* C2 as amended: a step call outside GameOver performs exactly one phase  *)
(* transition, except that in manual mode the step call made in Main,      *)
(* DeclareAttackers or DeclareBlockers while that phase's waiting flag is  *)
(* clear only raises the flag and leaves the phase unchanged.              *)
(***************************************************************************)
C2_AdvancesUnlessSuspended ==
    [][(Step /\ step # "GameOver") =>
          IF Suspends
          THEN /\ step' = step
               /\ step = "Main" => waiting_for_main_decision'
               /\ step = "DeclareAttackers" => waiting_for_attack_decision'
               /\ step = "DeclareBlockers" => waiting_for_block_decision'
               /\ players' = players
          ELSE step' = PhaseAfter /\ step' # step]_vars

\* a manual match whose Main suspended and was then left by the next call
C2_Witness ==
    /\ ~auto_play
    /\ waiting_for_main_decision
    /\ ~waiting_for_attack_decision
    /\ step = "DeclareAttackers"

(***************************************************************************)
(* C3: a step call in GameOver changes no field of the match, and          *)
(* is_game_over stays true.                                                *)
(***************************************************************************)
C3_GameOverAbsorbing ==
    [][(Step /\ step = "GameOver") => (UNCHANGED game /\ is_game_over')]_vars

C3_Witness == is_game_over /\ turns >= 2

(***************************************************************************)
(* C4: a match that is stepped until it is finished reaches GameOver, with *)
(* at least one turn played.                                               *)
(***************************************************************************)
C4_RunTerminates == <>(is_game_over /\ turns >= 1)

\* a match ended by the empty library of the player to draw
C4_Witness ==
    /\ is_game_over
    /\ players[cur].zones.Library = <<>>
    /\ \A p \in DOMAIN players : players[p].life > 0

(***************************************************************************)
(* C5: no operation indexes a battlefield out of range: empty zones and    *)
(* stale or out-of-range positions in the attacker and blocker records,    *)
(* declared from outside included, are passed over.                        *)
(***************************************************************************)
C5_NoFatalPath == ~panic

\* an AssignDamage that passed over a declared position
C5_Witness ==
    /\ step = "EndTurn"
    /\ skipped # {}
    /\ declares > 0
    /\ ~panic

\* the cards of a player, over the five zones
AllCards(p) ==
    players[p].zones.Library \o players[p].zones.Hand
        \o players[p].zones.Battlefield \o players[p].zones.Graveyard
        \o players[p].zones.Exile

\* how many cards of a sequence bear a name
Named(cards, nm) == Cardinality({i \in DOMAIN cards : cards[i].name = nm})

(***************************************************************************)
(* C6: for every player the cards of the five zones are exactly the cards  *)
(* of the deck the player started with: none lost, none duplicated, none   *)
(* of another player.                                                      *)
(***************************************************************************)
C6_CardsConserved ==
    \A p \in DOMAIN players :
        \E deck \in Decks :
            /\ Len(AllCards(p)) = Len(deck)
            /\ {AllCards(p)[i].uid : i \in DOMAIN AllCards(p)} = 1..Len(deck)
            /\ \A i \in DOMAIN AllCards(p) : AllCards(p)[i].owner = p - 1
            /\ \A i \in DOMAIN deck :
                  Named(AllCards(p), deck[i].name) = Named(deck, deck[i].name)

\* a player with cards in the hand, on the battlefield and in the graveyard
C6_Witness ==
    \E p \in DOMAIN players :
        /\ players[p].zones.Graveyard # <<>>
        /\ players[p].zones.Battlefield # <<>>
        /\ players[p].zones.Hand # <<>>
        /\ players[p].zones.Library = <<>>

\* the card of player p with identity uid is on p's battlefield in ps
OnBattlefield(ps, p, uid) ==
    \E i \in DOMAIN ps[p].zones.Battlefield :
        ps[p].zones.Battlefield[i].uid = uid

\* that card
BattlefieldCard(ps, p, uid) ==
    LET bf == ps[p].zones.Battlefield
    IN  bf[CHOOSE i \in DOMAIN bf : bf[i].uid = uid]

\* the card was cast in the turn being played
CastThisTurn(card) ==
    [owner |-> card.owner, uid |-> card.uid, turn |-> turns] \in cast_log

(***************************************************************************)
(* C7 as stated: no recorded attacker position holds a creature that was   *)
(* cast in the turn being played, so no such creature deals combat damage  *)
(* in that turn's AssignDamage.                                            *)
(***************************************************************************)
C7_NoSameTurnAttacker ==
    \A k \in DOMAIN attacking_creatures :
        attacking_creatures[k] < Len(Battlefield) =>
            ~CastThisTurn(Index(Battlefield, attacking_creatures[k]))

\* the cards a step has just cast
JustCast == cast_log' \ cast_log

HasCreatureFragment(card) == card.fragments.Creature.variant # "Absent"

\* a sick card of a battlefield that is still there and no longer sick
Cleared(p, uid) ==
    /\ OnBattlefield(players, p, uid)
    /\ has_summoning_sickness(BattlefieldCard(players, p, uid))
    /\ OnBattlefield(players', p, uid)
    /\ ~has_summoning_sickness(BattlefieldCard(players', p, uid))

\* sickness is cleared only by the Upkeep of the owner's own turn
ClearedOnlyByOwnUpkeep ==
    \A p \in DOMAIN players :
        \A i \in DOMAIN players[p].zones.Battlefield :
            Cleared(p, players[p].zones.Battlefield[i].uid) =>
                /\ step = "Upkeep"
                /\ step' = "Draw"
                /\ p = cur

CastLastOwnTurn(card) ==
    /\ is_type(card, "Creature")
    /\ HasCreatureFragment(card)
    /\ power_or_0(card) > 0
    /\ [owner |-> card.owner, uid |-> card.uid,
        turn |-> turns - Len(players)] \in cast_log

(***************************************************************************)
(* C9 as stated: when a creature cast with summoning sickness is still on  *)
(* the battlefield in the AssignDamage of its owner's next turn, the life  *)
(* totals it attacks are lower after that AssignDamage than before.        *)
(***************************************************************************)
C9_DamageOnNextTurn ==
    [][(/\ Step
        /\ step = "AssignDamage"
        /\ auto_play
        /\ \E i \in DOMAIN Battlefield : CastLastOwnTurn(Battlefield[i]))
          => \A p \in DOMAIN players :
                p # cur => players'[p].life < players[p].life]_vars

\* tapped cards of a player's battlefield
Tapped(ps, p) ==
    {ps[p].zones.Battlefield[i].uid :
        i \in {j \in DOMAIN ps[p].zones.Battlefield :
                  is_tapped(ps[p].zones.Battlefield[j])}}

(***************************************************************************)
(* C10: the Untap phase leaves no card of the active player's battlefield  *)
(* tapped and changes nothing of any other player; a tapped card that      *)
(* stays on its battlefield is untapped by nothing but the Untap phase of  *)
(* its own player's turn.                                                  *)
(***************************************************************************)
C10_UntapOwnBattlefieldOnly ==
    [][/\ (Step /\ step = "Untap") =>
             /\ Tapped(players', cur) = {}
             /\ \A p \in DOMAIN players : p # cur => players'[p] = players[p]
       /\ \A p \in DOMAIN players :
             \A uid \in Tapped(players, p) :
                (OnBattlefield(players', p, uid) /\ uid \notin Tapped(players', p))
                    => (step = "Untap" /\ step' = "Upkeep" /\ p = cur)]_vars

\* the active player's cards are untapped again, another player's still are
\* tapped
C10_Witness ==
    /\ step = "Upkeep"
    /\ turns >= 3
    /\ Battlefield # <<>>
    /\ Tapped(players, cur) = {}
    /\ \E p \in DOMAIN players : p # cur /\ Tapped(players, p) # {}

(***************************************************************************)
(* C11: a step in Draw with the active player's library empty leads to     *)
(* GameOver and changes no player; with a library that holds cards it      *)
(* moves exactly the top card (the last of the Vec) to the end of the      *)
(* active player's hand, changes nothing else, and leads to Main.          *)
(***************************************************************************)
C11_Draw ==
    [][(Step /\ step = "Draw") =>
          IF CurZones.Library = <<>>
          THEN step' = "GameOver" /\ players' = players
          ELSE /\ step' = "Main"
               /\ players'[cur].zones.Library =
                      SubSeq(CurZones.Library, 1, Len(CurZones.Library) - 1)
               /\ players'[cur].zones.Hand =
                      Append(CurZones.Hand,
                             CurZones.Library[Len(CurZones.Library)])
               /\ players'[cur].zones.Battlefield = CurZones.Battlefield
               /\ players'[cur].zones.Graveyard = CurZones.Graveyard
               /\ players'[cur].zones.Exile = CurZones.Exile
               /\ \A p \in DOMAIN players :
                     /\ players'[p].life = players[p].life
                     /\ p # cur => players'[p] = players[p]]_vars

\* a manual match that the empty library of the player to draw has ended
C11_Witness ==
    /\ is_game_over
    /\ ~auto_play
    /\ CurZones.Library = <<>>
    /\ Len(CurZones.Hand) > HandSize

\* an auto-play step of the Main phase
AutoMain == Step /\ step = "Main" /\ auto_play

\* Land-tagged cards of a sequence of cards
Lands(cards) == Cardinality({i \in DOMAIN cards : is_type(cards[i], "Land")})

\* 1-based hand positions of the Land-tagged cards
LandsInHand == {i \in DOMAIN CurZones.Hand : is_type(CurZones.Hand[i], "Land")}

\* the battlefield of the active player after the step
Battlefield2 == players'[cur].zones.Battlefield

\* the cards the step has cast, as they lie on the battlefield
JustCastCards ==
    {BattlefieldCard(players', e.owner + 1, e.uid) : e \in JustCast}

\* the first Land-tagged card of the hand, if any, is on the battlefield
\* after the step
FirstLandPlayed ==
    LandsInHand # {} =>
        OnBattlefield(players', cur, CurZones.Hand[MinOf(LandsInHand)].uid)

(***************************************************************************)
(* C12 as stated: during an auto-play Main the number of Land-tagged cards *)
(* on the active player's battlefield grows by exactly 1 when the hand     *)
(* holds a Land-tagged card (the first one is played) and by 0 otherwise.  *)
(***************************************************************************)
C12_LandCountGrowsByOne ==
    [][AutoMain =>
          /\ Lands(Battlefield2) =
                 Lands(Battlefield) + (IF LandsInHand # {} THEN 1 ELSE 0)
          /\ FirstLandPlayed]_vars

(***************************************************************************)
(* C12 as amended: an auto-play Main plays at most one land, the first     *)
(* Land-tagged card of the hand; the number of Land-tagged cards on the    *)
(* battlefield grows by that one card and by the creatures the phase casts *)
(* that are themselves Land-tagged.                                        *)
(***************************************************************************)
C12_OneLandPlayed ==
    [][AutoMain =>
          /\ Lands(Battlefield2) =
                 Lands(Battlefield) + (IF LandsInHand # {} THEN 1 ELSE 0)
                     + Cardinality({c \in JustCastCards : is_type(c, "Land")})
          /\ FirstLandPlayed]_vars

\* the first Main has played one of the lands of the hand and kept another
C12_Witness ==
    /\ step = "DeclareAttackers"
    /\ turns = 1
    /\ \E i \in DOMAIN CurZones.Hand : is_type(CurZones.Hand[i], "Land")
    /\ Lands(Battlefield) = MaxScenarioLands + 1

\* 1-based position of a card in the hand before the step
HandPos(uid) == CHOOSE i \in DOMAIN CurZones.Hand : CurZones.Hand[i].uid = uid

FourLandsTwoBears ==
    /\ available_mana(Battlefield) = 4
    /\ Len(CurZones.Hand) = 2
    /\ \A i \in DOMAIN CurZones.Hand :
          is_creature(CurZones.Hand[i]) /\ CurZones.Hand[i].cost = 2
                                        /\ ~is_type(CurZones.Hand[i], "Land")

Kept ==
    SelectSeq(Battlefield2, LAMBDA c : c.uid \notin {e.uid : e \in JustCast})

\* the card at position i of Kept as it was before the step: a battlefield
\* card, or the land this phase has played
Was(i) ==
    IF i <= Len(Battlefield) THEN Battlefield[i]
    ELSE CurZones.Hand[MinOf(LandsInHand)]

\* the untapped Land-tagged cards the casts of the step could pay with
Payable == {i \in DOMAIN Kept : is_type(Was(i), "Land") /\ ~is_tapped(Was(i))}

RECURSIVE SumCost(_)
SumCost(S) ==
    IF S = {} THEN 0
    ELSE LET c == CHOOSE x \in S : TRUE IN c.cost + SumCost(S \ {c})

\* the first SumCost(JustCastCards) positions of Payable
Paying ==
    {i \in Payable :
        Cardinality({j \in Payable : j < i}) < SumCost(JustCastCards)}

\* the casts of the step have tapped the first untapped lands, as many as
\* their costs, and nothing else
PaidExactly ==
    /\ Len(Kept) = Len(Battlefield) + (IF LandsInHand # {} THEN 1 ELSE 0)
    /\ available_mana(Battlefield2) =
           Cardinality(Payable) - SumCost(JustCastCards)
    /\ \A i \in DOMAIN Kept :
          IF i \in Paying
          THEN is_tapped(Kept[i]) /\ Kept[i] = set_tapped(Was(i), TRUE)
          ELSE Kept[i] = Was(i)
    /\ \A c \in JustCastCards : ~is_tapped(c)

\* the casts of the step have tapped untapped lands only (a Land-tagged
\* creature cast earlier in the step among them), no more than their costs
PaidAtMost ==
    /\ Len(Kept) = Len(Battlefield) + (IF LandsInHand # {} THEN 1 ELSE 0)
    /\ \A i \in DOMAIN Kept :
          \/ Kept[i] = Was(i)
          \/ i \in Payable /\ Kept[i] = set_tapped(Was(i), TRUE)
    /\ \A c \in JustCastCards : is_tapped(c) => is_type(c, "Land")
    /\ Cardinality({i \in DOMAIN Kept : Kept[i] # Was(i)})
         + Cardinality({c \in JustCastCards : is_tapped(c)})
           <= SumCost(JustCastCards)

(***************************************************************************)
(* C15 as stated: the casts of an auto-play Main consume exactly their     *)
(* costs: the untapped Land-tagged cards of the active player's            *)
(* battlefield are fewer by the costs of the creatures cast, the lands     *)
(* tapped are the first untapped ones in battlefield order, and no other   *)
(* card's tapped state changes.                                            *)
(***************************************************************************)
C15_CastConsumesCost ==
    [][AutoMain => PaidExactly]_vars

\* every Land-tagged card of the active player's hand and battlefield
\* carries a tappable fragment and is not a creature
LandsArePlain ==
    \A zn \in {"Hand", "Battlefield"} : \A i \in DOMAIN CurZones[zn] :
        is_type(CurZones[zn][i], "Land") =>
            /\ CurZones[zn][i].fragments.Tappable # NoFragment
            /\ ~is_creature(CurZones[zn][i])

(***************************************************************************)
(* C15 as amended: the casts of an auto-play Main tap untapped Land-tagged *)
(* cards only, at most as many as their costs, and change nothing else;    *)
(* when every Land-tagged card of the active player's hand and battlefield *)
(* carries a tappable fragment and is not a creature, they consume exactly *)
(* their costs in untapped lands, the first ones in battlefield order.     *)
(***************************************************************************)
C15_PlainLandsPayCost ==
    [][AutoMain => PaidAtMost /\ (LandsArePlain => PaidExactly)]_vars

\* a first Main that cast a creature and paid with the first land only
C15_Witness ==
    /\ step = "DeclareAttackers"
    /\ turns = 1
    /\ cast_log # {}
    /\ Len(Battlefield) >= 3
    /\ is_type(Battlefield[1], "Land") /\ is_tapped(Battlefield[1])
    /\ is_type(Battlefield[2], "Land") /\ ~is_tapped(Battlefield[2])
    /\ \A i \in DOMAIN Battlefield :
          is_type(Battlefield[i], "Land") =>
              /\ Battlefield[i].fragments.Tappable # NoFragment
              /\ ~is_creature(Battlefield[i])

(***************************************************************************)
(* C16: an auto-play Main casts a creature only when, in that round of the *)
(* cast loop (after the phase's land play), the untapped Land-tagged cards *)
(* of the active player's battlefield number at least its cost; a cost-2   *)
(* creature is therefore cast only with at least 2 Land-tagged cards on    *)
(* the battlefield.                                                        *)
(***************************************************************************)
C16_NeverCastsUnpaid ==
    [][AutoMain =>
          LET moments == CastMoments(PlayLand(CurZones))
          IN  /\ Len(moments) = Cardinality(JustCast)
              /\ \A k \in DOMAIN moments :
                    /\ moments[k].card.uid = Battlefield2[Len(Kept) + k].uid
                    /\ moments[k].card.cost <= moments[k].available_mana
              /\ \A c \in JustCastCards : c.cost <= Lands(Battlefield2)]_vars

\* a cost-2 creature that stayed in hand in the first Main, with one land on
\* the battlefield, and is cast in the owner's next Main, with two
C16_Witness ==
    /\ step = "DeclareAttackers"
    /\ turns > 1
    /\ Lands(Battlefield) = 2
    /\ Cardinality(cast_log) = 1
    /\ \E e \in cast_log :
          /\ e.turn = turns
          /\ e.owner = current_player_index
          /\ BattlefieldCard(players, cur, e.uid).cost = 2

\* an auto-play step of the DeclareAttackers phase
AutoDeclareAttackers == Step /\ step = "DeclareAttackers" /\ auto_play

\* 0-based positions of the active player's battlefield cards that are
\* Creature-tagged, untapped and without summoning sickness
Eligible ==
    {i \in 0..(Len(Battlefield) - 1) :
        /\ is_type(Battlefield[i + 1], "Creature")
        /\ ~is_tapped(Battlefield[i + 1])
        /\ ~has_summoning_sickness(Battlefield[i + 1])}

\* the step records exactly the eligible positions, ascending
RecordsEligible ==
    /\ Elems(attacking_creatures') = Eligible
    /\ \A j, k \in DOMAIN attacking_creatures' :
          j < k => attacking_creatures'[j] < attacking_creatures'[k]

\* the step changes nothing but the tapped flag of the recorded attackers
OnlyAttackersChange ==
    /\ DOMAIN players' = DOMAIN players
    /\ \A p \in DOMAIN players : p # cur => players'[p] = players[p]
    /\ players'[cur] = [players[cur] EXCEPT !.zones.Battlefield = Battlefield2]
    /\ Len(Battlefield2) = Len(Battlefield)
    /\ \A i \in DOMAIN Battlefield :
          Battlefield2[i] =
              IF (i - 1) \in Elems(attacking_creatures')
              THEN set_tapped(Battlefield[i], TRUE) ELSE Battlefield[i]

(***************************************************************************)
(* C17 as stated: an auto-play DeclareAttackers records exactly the        *)
(* positions of the active player's battlefield cards that are             *)
(* Creature-tagged, untapped and without summoning sickness, ascending and *)
(* without duplicates; afterwards every recorded attacker is tapped and no *)
(* other card has changed.                                                 *)
(***************************************************************************)
C17_AttackersAllTapped ==
    [][AutoDeclareAttackers =>
          /\ RecordsEligible
          /\ OnlyAttackersChange
          /\ \A a \in Elems(attacking_creatures') :
                is_tapped(Battlefield2[a + 1])]_vars

(***************************************************************************)
(* C17 as amended: the same record and the same frame; afterwards every    *)
(* recorded attacker that carries a tappable fragment is tapped, and one   *)
(* without the fragment is unchanged.                                      *)
(***************************************************************************)
C17_TappableAttackersTapped ==
    [][AutoDeclareAttackers =>
          /\ RecordsEligible
          /\ OnlyAttackersChange
          /\ \A a \in Elems(attacking_creatures') :
                IF Battlefield[a + 1].fragments.Tappable # NoFragment
                THEN is_tapped(Battlefield2[a + 1])
                ELSE Battlefield2[a + 1] = Battlefield[a + 1]]_vars

\* an auto-play declaration that recorded and tapped one creature and passed
\* over another, still sick
C17_Witness ==
    /\ step = "DeclareBlockers"
    /\ auto_play
    /\ attacking_creatures # <<>>
    /\ \A k \in DOMAIN attacking_creatures :
          is_tapped(Battlefield[attacking_creatures[k] + 1])
    /\ \E i \in DOMAIN Battlefield :
          /\ (i - 1) \notin Elems(attacking_creatures)
          /\ is_type(Battlefield[i], "Creature")
          /\ has_summoning_sickness(Battlefield[i])
          /\ ~is_tapped(Battlefield[i])

\* a step of the AssignDamage phase
Damage == Step /\ step = "AssignDamage"

\* the attacker positions some entry of the blocking record names
Blocked == {blocking_map[b] : b \in DOMAIN blocking_map}

\* the sum of the powers of the recorded attackers, from entry k on, that
\* are on the battlefield and not blocked
RECURSIVE UnblockedPower(_)
UnblockedPower(k) ==
    IF k > Len(attacking_creatures) THEN 0
    ELSE (IF /\ attacking_creatures[k] < Len(Battlefield)
             /\ attacking_creatures[k] \notin Blocked
          THEN power_or_0(Battlefield[attacking_creatures[k] + 1]) ELSE 0)
         + UnblockedPower(k + 1)

(***************************************************************************)
(* C18: in AssignDamage every player other than the active player loses    *)
(* the sum of the powers of the unblocked attackers, blocked attackers     *)
(* subtract nothing, and the active player's life is unchanged, for any    *)
(* number of players.                                                      *)
(***************************************************************************)
C18_UnblockedDamageToOpponents ==
    [][Damage =>
          /\ DOMAIN players' = DOMAIN players
          /\ \A p \in DOMAIN players :
                players'[p].life =
                    IF p = cur THEN players[p].life
                    ELSE players[p].life - UnblockedPower(1)]_vars

\* three players after a combat with one blocked attacker, destroyed, and
\* one unblocked: both opponents have lost the same life, the active player
\* none
C18_Witness ==
    /\ step = "EndTurn"
    /\ Len(players) = 3
    /\ players[cur].life = StartingLife
    /\ CurZones.Graveyard # <<>>
    /\ \A p \in DOMAIN players :
          p # cur => players[p].life = StartingLife - 1

\* the card with that uid of the active player is destroyed by the step
Destroyed(uid) ==
    /\ ~OnBattlefield(players', cur, uid)
    /\ \E i \in DOMAIN players'[cur].zones.Graveyard :
          players'[cur].zones.Graveyard[i].uid = uid

\* the entry of the blocking record for blocker position b names one fight:
\* both positions are on the battlefield, the attacker is recorded and has
\* no other blocker, and neither card takes part in another fight
OneFight(b) ==
    /\ b < Len(Battlefield)
    /\ blocking_map[b] < Len(Battlefield)
    /\ blocking_map[b] \in Elems(attacking_creatures)
    /\ b \notin Elems(attacking_creatures)
    /\ blocking_map[b] \notin DOMAIN blocking_map
    /\ \A c \in DOMAIN blocking_map : blocking_map[c] = blocking_map[b] => c = b

(***************************************************************************)
(* C19: blocked combat is simultaneous: the blocker is destroyed iff the   *)
(* attacker's power >= the blocker's toughness and the attacker is         *)
(* destroyed iff the blocker's power >= the attacker's toughness, both     *)
(* taken from the cards before the step; a destroyed card has left the     *)
(* battlefield for the graveyard after the same step.                      *)
(***************************************************************************)
C19_SimultaneousCombat ==
    [][Damage =>
          \A b \in DOMAIN blocking_map :
              OneFight(b) =>
                  LET blocker == Battlefield[b + 1]
                      attacker == Battlefield[blocking_map[b] + 1]
                  IN  /\ Destroyed(blocker.uid) <=>
                             power_or_0(attacker) >= toughness_or_0(blocker)
                      /\ Destroyed(attacker.uid) <=>
                             power_or_0(blocker) >= toughness_or_0(attacker)
                      /\ ~Destroyed(blocker.uid) =>
                             OnBattlefield(players', cur, blocker.uid)
                      /\ ~Destroyed(attacker.uid) =>
                             OnBattlefield(players', cur, attacker.uid)]_vars

\* after a combat in which attacker and blocker destroyed each other
C19_Witness ==
    /\ step = "EndTurn"
    /\ Len(CurZones.Graveyard) = 2

(***************************************************************************)
(* C20: after an AssignDamage step the phase is GameOver iff some player's *)
(* life total is <= 0 once the damage of the step is applied; otherwise it *)
(* is EndTurn.                                                             *)
(***************************************************************************)
C20_GameOverIffDead ==
    [][Damage =>
          IF \E p \in DOMAIN players' : players'[p].life <= 0
          THEN step' = "GameOver" ELSE step' = "EndTurn"]_vars

\* a match ended by a hit that left a life total of exactly 0
C20_Witness ==
    /\ is_game_over
    /\ players[cur].life = StartingLife
    /\ \E p \in DOMAIN players : players[p].life = 0

\* the turn counter names the player whose turn it is: turn t is the turn of
\* player (t - 1) mod player count; in StartTurn the counter is still that
\* of the turn before
TurnOwner ==
    current_player_index =
        (IF step = "StartTurn" THEN turns ELSE turns - 1) % Len(players)

(***************************************************************************)
(* C21: turns rotate round-robin: current_player_index is always a valid   *)
(* player position, the EndTurn step sets it to (current_player_index + 1) *)
(* mod player count, no other step changes it (it is constant from         *)
(* StartTurn through AssignDamage), and consecutive turns belong to        *)
(* consecutive players.                                                    *)
(***************************************************************************)
C21_RoundRobin ==
    /\ [](current_player_index \in 0..(Len(players) - 1) /\ TurnOwner)
    /\ [][IF step = "EndTurn"
          THEN current_player_index' =
                   (current_player_index + 1) % Len(players)
          ELSE current_player_index' = current_player_index]_vars

\* three players, the turn is back with the first one
C21_Witness ==
    /\ Len(players) = 3
    /\ turns = 4
    /\ step = "Main"
    /\ current_player_index = 0

\* the state GameState::new has built, before the first step call
Constructed == step = "StartTurn" /\ turns = 0

\* a card as the deck holds it
DeckCard(card) == [card EXCEPT !.uid = 0, !.owner = 0]

\* library and hand of player p are the cards of the deck, every card as
\* often as the deck holds it, `dealt` of them in the hand
DealtFrom(p, deck, dealt) ==
    LET z == players[p].zones
        own == z.Library \o z.Hand
    IN  /\ Len(z.Hand) = dealt
        /\ Len(z.Library) = Len(deck) - dealt
        /\ \A i \in DOMAIN deck :
              Cardinality({k \in DOMAIN own : DeckCard(own[k]) = deck[i]})
                  = Count(deck, deck[i])

\* what GameState::new yields apart from the size of the hands
NewMatchFields ==
    /\ Len(players) >= MinPlayers
    /\ Len(players) <= (IF MaxPlayerCount < MinPlayers THEN MinPlayers
                                                       ELSE MaxPlayerCount)
    /\ \A p \in DOMAIN players :
          /\ players[p].life = StartingLife
          /\ players[p].zones.Battlefield = <<>>
          /\ players[p].zones.Graveyard = <<>>
          /\ players[p].zones.Exile = <<>>
    /\ current_player_index = 0
    /\ attacking_creatures = <<>>
    /\ blocking_map = EmptyMap
    /\ ~waiting_for_main_decision
    /\ ~waiting_for_attack_decision
    /\ ~waiting_for_block_decision

DecisionPhases == {"Main", "DeclareAttackers", "DeclareBlockers"}

WaitingFlag(ph) ==
    CASE ph = "Main" -> waiting_for_main_decision
      [] ph = "DeclareAttackers" -> waiting_for_attack_decision
      [] ph = "DeclareBlockers" -> waiting_for_block_decision
      [] OTHER -> FALSE

\* a step call of a manual match
ManualStep == Step /\ ~auto_play

\* the step call suspends: the phase's flag is set, the phase stays, and no
\* land is played, nothing cast, no attacker or blocker recorded
Suspended ==
    /\ (WaitingFlag(step))'
    /\ step' = step
    /\ players' = players
    /\ UNCHANGED combat

(***************************************************************************)
(* C23: in manual mode the first step call after every entry into Main,    *)
(* DeclareAttackers or DeclareBlockers, in every turn, suspends.  What the *)
(* arm does depends on the phase's waiting flag alone, so the first call   *)
(* suspends exactly when the phase is entered with its flag down: every    *)
(* step that enters a decision phase leaves that phase's flag down, and    *)
(* every step call in a decision phase with the flag down suspends.        *)
(***************************************************************************)
C23_SuspendsOnEveryEntry ==
    [][ManualStep =>
          /\ (step' \in DecisionPhases /\ step' # step) => ~(WaitingFlag(step))'
          /\ (step \in DecisionPhases /\ ~WaitingFlag(step)) => Suspended]_vars

Uids(cards) == [i \in DOMAIN cards |-> cards[i].uid]

\* no life total, turn counter, current player or zone membership changes
MatchFrame ==
    /\ turns' = turns
    /\ current_player_index' = current_player_index
    /\ DOMAIN players' = DOMAIN players
    /\ \A p \in DOMAIN players :
          /\ players'[p].life = players[p].life
          /\ \A zn \in ZoneNames :
                Uids(players'[p].zones[zn]) = Uids(players[p].zones[zn])

(***************************************************************************)
(* C25: declare_attackers(positions) records exactly the given positions,  *)
(* taps every battlefield card of the active player at a valid given       *)
(* position, changes no other card and sets the phase to DeclareBlockers;  *)
(* declare_blockers(map) records exactly the given map, changes no card    *)
(* and sets the phase to AssignDamage; neither changes life totals, the    *)
(* turn counter, the current player or the membership of any zone.         *)
(***************************************************************************)
C25_DeclareContract ==
    [][/\ \A positions \in AttackerPayloads :
             DeclareAttackers(positions) =>
                 /\ attacking_creatures' = positions
                 /\ blocking_map' = blocking_map
                 /\ step' = "DeclareBlockers"
                 /\ MatchFrame
                 /\ \A p \in DOMAIN players : p # cur => players'[p] = players[p]
                 /\ \A i \in DOMAIN Battlefield :
                       IF (i - 1) \in Elems(positions)
                       THEN /\ is_tapped(Battlefield2[i])
                            /\ Battlefield2[i] = set_tapped(Battlefield[i], TRUE)
                       ELSE Battlefield2[i] = Battlefield[i]
       /\ \A map \in BlockerPayloads :
             DeclareBlockers(map) =>
                 /\ blocking_map' = map
                 /\ attacking_creatures' = attacking_creatures
                 /\ step' = "AssignDamage"
                 /\ MatchFrame
                 /\ players' = players]_vars

\* after a declare_attackers that named a card of the battlefield, now
\* tapped, and a position beyond the battlefield
C25_Witness ==
    /\ step = "DeclareBlockers"
    /\ declares > 0
    /\ skipped # {}
    /\ \E k \in DOMAIN attacking_creatures :
          /\ attacking_creatures[k] < Len(Battlefield)
          /\ is_tapped(Battlefield[attacking_creatures[k] + 1])

(***************************************************************************)
(* Snapshots: #[derive(Serialize, Deserialize)] on GameState, Player and   *)
(* Card, with serialize_fragments / deserialize_fragments (card.rs), as    *)
(* serde_json writes and reads them.  A JSON object is a function on its   *)
(* key strings, an array a sequence.                                       *)
(***************************************************************************)
Digits == <<"0", "1", "2", "3", "4", "5", "6", "7", "8", "9">>

\* a usize map key, written as the decimal string JSON needs for a key
RECURSIVE KeyString(_)
KeyString(n) ==
    IF n < 10 THEN Digits[n + 1]
    ELSE KeyString(n \div 10) \o Digits[(n % 10) + 1]

\* the key string read back as usize
KeyParse(str) == CHOOSE n \in 0..MaxKey : KeyString(n) = str

\* SerializableFragment::from_fragment: Some(enum variant) by downcast
from_fragment(f) ==
    IF f.variant = "Creature"
    THEN <<[Creature |-> [stats |-> [power |-> f.stats.power,
                                     toughness |-> f.stats.toughness],
                          summoning_sickness |-> f.summoning_sickness]]>>
    ELSE IF f.variant = "Tappable"
         THEN <<[Tappable |-> [tapped |-> f.tapped]]>>
         ELSE <<>>

\* SerializableFragment::to_fragment
to_fragment(sf) ==
    IF "Creature" \in DOMAIN sf
    THEN CreatureFragment(sf.Creature.stats.power, sf.Creature.stats.toughness,
                          sf.Creature.summoning_sickness)
    ELSE TappableFragment(sf.Tappable.tapped)

\* a faulty serialize_fragments: only the creature fragment is written
serialize_fragments_creature_only(fragments) ==
    [k \in {k \in DOMAIN fragments : /\ k = "Creature"
                                     /\ fragments[k] # NoFragment
                                     /\ from_fragment(fragments[k]) # <<>>}
        |-> from_fragment(fragments[k])[1]]

\* serialize_fragments: the entries of the HashMap that from_fragment knows
serialize_fragments(fragments) ==
    [k \in {k \in DOMAIN fragments : /\ fragments[k] # NoFragment
                                     /\ from_fragment(fragments[k]) # <<>>}
        |-> from_fragment(fragments[k])[1]]

\* deserialize_fragments
deserialize_fragments(obj) ==
    [k \in {"Creature", "Tappable"} |->
        IF k \in DOMAIN obj THEN to_fragment(obj[k]) ELSE NoFragment]

\* Card, written and read
card_to_json(card) ==
    [name |-> card.name, card_types |-> card.card_types, cost |-> card.cost,
     fragments |-> serialize_fragments(card.fragments)]

card_from_json(j) ==
    LET f == deserialize_fragments(j.fragments)
    IN  Card(j.name, j.card_types, j.cost, f.Creature, f.Tappable)

\* Player, written and read
player_to_json(pl) ==
    [life |-> pl.life,
     zones |-> [zn \in DOMAIN pl.zones |->
                   [i \in DOMAIN pl.zones[zn] |-> card_to_json(pl.zones[zn][i])]]]

player_from_json(j) ==
    [life |-> j.life,
     zones |-> [zn \in DOMAIN j.zones |->
                   [i \in DOMAIN j.zones[zn] |-> card_from_json(j.zones[zn][i])]]]

\* GameState, written and read
to_json(gs) ==
    [players |-> [p \in DOMAIN gs.players |-> player_to_json(gs.players[p])],
     current_player_index |-> gs.current_player_index,
     turns |-> gs.turns,
     step |-> gs.step,
     attacking_creatures |-> gs.attacking_creatures,
     blocking_map |->
         [str \in {KeyString(b) : b \in DOMAIN gs.blocking_map} |->
             gs.blocking_map[KeyParse(str)]],
     auto_play |-> gs.auto_play,
     waiting_for_main_decision |-> gs.waiting_for_main_decision,
     waiting_for_attack_decision |-> gs.waiting_for_attack_decision,
     waiting_for_block_decision |-> gs.waiting_for_block_decision]

from_json(j) ==
    [players |-> [p \in DOMAIN j.players |-> player_from_json(j.players[p])],
     current_player_index |-> j.current_player_index,
     turns |-> j.turns,
     step |-> j.step,
     attacking_creatures |-> j.attacking_creatures,
     blocking_map |->
         [b \in {KeyParse(str) : str \in DOMAIN j.blocking_map} |->
             j.blocking_map[KeyString(b)]],
     auto_play |-> j.auto_play,
     waiting_for_main_decision |-> j.waiting_for_main_decision,
     waiting_for_attack_decision |-> j.waiting_for_attack_decision,
     waiting_for_block_decision |-> j.waiting_for_block_decision]

\* the GameState value of the current state: the fields of the struct, the
\* cards as values (which clone a card is, is not a field)
GameStateValue ==
    [players |->
        [p \in DOMAIN players |->
            [life |-> players[p].life,
             zones |-> [zn \in ZoneNames |->
                           [i \in DOMAIN players[p].zones[zn] |->
                               DeckCard(players[p].zones[zn][i])]]]],
     current_player_index |-> current_player_index,
     turns |-> turns,
     step |-> step,
     attacking_creatures |-> attacking_creatures,
     blocking_map |-> blocking_map,
     auto_play |-> auto_play,
     waiting_for_main_decision |-> waiting_for_main_decision,
     waiting_for_attack_decision |-> waiting_for_attack_decision,
     waiting_for_block_decision |-> waiting_for_block_decision]

(***************************************************************************)
(* C26: for every reachable match state, reading back the written snapshot *)
(* yields an equal state: players, card order of every zone, tags, cost    *)
(* and fragment fields of every card, life totals, phase, turn counter,    *)
(* current player, attacker and blocker records, auto_play and flags.      *)
(***************************************************************************)
C26_SnapshotRoundTrip ==
    from_json(to_json(GameStateValue)) = GameStateValue

\* a snapshot taken in mid-combat: a blocker recorded, tapped and sick cards
\* on the battlefield
C26_Witness ==
    /\ step = "AssignDamage"
    /\ DOMAIN blocking_map # {}
    /\ \E i \in DOMAIN Battlefield : is_tapped(Battlefield[i])
    /\ \E i \in DOMAIN Battlefield : has_summoning_sickness(Battlefield[i])
    /\ from_json(to_json(GameStateValue)) = GameStateValue

(***************************************************************************)
(* Card composition: the tag list (card.rs) and the creature fragment      *)
(* (creature.rs) of a card are edited by four functions.  The card edited  *)
(* is the single hand card of the first player of a match placed in Main.  *)
(***************************************************************************)
CardTypes == {"Land", "Creature"}

\* Card::add_type: push unless contained
add_type(card, t) ==
    IF \E i \in DOMAIN card.card_types : card.card_types[i] = t THEN card
    ELSE [card EXCEPT !.card_types = Append(@, t)]

\* a faulty remove_type: the creature fragment goes with the Creature tag
remove_type_and_fragment(card, t) ==
    LET at == {i \in DOMAIN card.card_types : card.card_types[i] = t}
    IN  IF at = {} THEN card
        ELSE [card EXCEPT
                !.card_types = VecRemove(@, MinOf(at) - 1),
                !.fragments.Creature =
                    IF t = "Creature" THEN NoFragment ELSE @]

\* Card::remove_type: remove at the first position holding the tag
remove_type(card, t) ==
    LET at == {i \in DOMAIN card.card_types : card.card_types[i] = t}
    IN  IF at = {} THEN card
        ELSE [card EXCEPT !.card_types = VecRemove(@, MinOf(at) - 1)]

\* creature::add_creature_fragment(card, power, toughness): fragments.insert
\* of a new fragment.  The struct literal of creature.rs names the stats
\* only; the summoning_sickness the fragment starts with is not fixed by the
\* source, so it is an argument here
add_creature_fragment(card, power, toughness, sick) ==
    [card EXCEPT !.fragments.Creature = CreatureFragment(power, toughness, sick)]

\* creature::remove_creature_fragment: fragments.remove
remove_creature_fragment(card) ==
    [card EXCEPT !.fragments.Creature = NoFragment]

Stats == 0..MaxStat

InitCards ==
    \E card \in ScenarioCards :
        /\ players = <<ScenarioPlayer(0, <<>>, <<card>>, <<>>),
                       ScenarioPlayer(1, <<>>, <<>>, <<>>)>>
        /\ current_player_index = 0
        /\ turns = 1
        /\ step = "Main"
        /\ attacking_creatures = <<>>
        /\ blocking_map = EmptyMap
        /\ auto_play = TRUE
        /\ waiting_for_main_decision = FALSE
        /\ waiting_for_attack_decision = FALSE
        /\ waiting_for_block_decision = FALSE
        /\ declares = 0
        /\ cast_log = {}
        /\ panic = FALSE
        /\ skipped = {}
        /\ NoRequests

\* the card being edited
TheCard == players[1].zones.Hand[1]

Edit(card) ==
    /\ players' = [players EXCEPT ![1].zones.Hand[1] = card]
    /\ UNCHANGED <<current_player_index, turns, step, combat, flags, declares,
                   cast_log, panic, skipped>>
    /\ Atomic

AddType == \E t \in CardTypes : Edit(add_type(TheCard, t))

RemoveType == \E t \in CardTypes : Edit(remove_type(TheCard, t))

AddCreatureFragment ==
    \E power \in Stats, toughness \in Stats, sick \in BOOLEAN :
        Edit(add_creature_fragment(TheCard, power, toughness, sick))

RemoveCreatureFragment == Edit(remove_creature_fragment(TheCard))

SetTapped == \E value \in BOOLEAN : Edit(set_tapped(TheCard, value))

SetSummoningSickness ==
    \E value \in BOOLEAN : Edit(set_summoning_sickness(TheCard, value))

NextCards ==
    \/ AddType
    \/ RemoveType
    \/ AddCreatureFragment
    \/ RemoveCreatureFragment
    \/ SetTapped
    \/ SetSummoningSickness

SpecCards == InitCards /\ [][NextCards]_vars

\* two cards that differ in nothing but the tag list
SameButTags(a, b) == [a EXCEPT !.card_types = b.card_types] = b

(***************************************************************************)
(* C27: tags and fragments are independent: add_type and remove_type       *)
(* change only the tag list; attaching or detaching a creature fragment    *)
(* never changes the tag list; remove_type followed by add_type of the     *)
(* same tag makes is_type true again with the fragments exactly as before; *)
(* and is_creature stays true after the Creature tag is removed as long as *)
(* the creature fragment is attached.                                      *)
(***************************************************************************)
C27_TagsAndFragmentsIndependent ==
    /\ \A t \in CardTypes :
          /\ SameButTags(add_type(TheCard, t), TheCard)
          /\ SameButTags(remove_type(TheCard, t), TheCard)
          /\ is_type(add_type(remove_type(TheCard, t), t), t)
          /\ add_type(remove_type(TheCard, t), t).fragments = TheCard.fragments
    /\ \A power \in Stats, toughness \in Stats, sick \in BOOLEAN :
          add_creature_fragment(TheCard, power, toughness, sick).card_types
              = TheCard.card_types
    /\ remove_creature_fragment(TheCard).card_types = TheCard.card_types
    /\ HasCreatureFragment(TheCard) =>
          is_creature(remove_type(TheCard, "Creature"))

\* a Grizzly Bears whose Creature tag was removed and whose fragment was
\* replaced: no tag, still a creature
C27_Witness ==
    /\ TheCard.name = "Grizzly Bears"
    /\ TheCard.card_types = <<>>
    /\ HasCreatureFragment(TheCard)
    /\ TheCard.fragments.Creature.stats.power = 0
    /\ is_creature(TheCard)

(***************************************************************************)
(* The service (main.rs): one match behind Arc<Mutex<GameState>>, shared   *)
(* by the handlers.  A handler locks the mutex, works on the match through *)
(* the guard, clones it into the response, and releases the mutex when the *)
(* guard is dropped at its end.  Each of these is a step of its own here,  *)
(* so the handlers of different requests interleave.                       *)
(***************************************************************************)
\* the routes that read or write the match (/deck and /all end as /restart
\* does)
Routes == <<"state", "step", "turn", "game", "declare-attackers",
            "declare-blockers", "restart">>

DeclareKinds == {"declare-attackers", "declare-blockers"}

\* a request that arrived: its handler is about to lock the mutex.  before
\* and after are history: the match as the handler found it and as it last
\* wrote it
NewRequest(kind) ==
    [kind |-> kind, pc |-> "new", start_turn |-> 0,
     before |-> <<>>, after |-> <<>>, response |-> <<>>]

\* the shuffles the service is followed on: the deck in its order, and
\* reversed
ServedShuffles(deck) ==
    {deck, [i \in DOMAIN deck |-> deck[Len(deck) + 1 - i]]}

\* GameState::new_default(), as the fields of a match
Served(ps) ==
    \E deck \in ServerDecks : \E libs \in [1..MinPlayers -> ServedShuffles(deck)] :
        ps = [p \in DOMAIN libs |-> PlayerNew(p - 1, libs[p])]

InitServer ==
    /\ \E deck \in ServerDecks : GameStateNew(2, deck)
    /\ Served(players)
    /\ lock = Unlocked
    \* any requests at the same time; they are told apart by nothing but
    \* their routes, so they are numbered in the order of their routes
    /\ \E route \in [1..MaxRequests -> DOMAIN Routes] :
          /\ \A r, q \in DOMAIN route : r < q => route[r] <= route[q]
          /\ Cardinality({r \in DOMAIN route :
                              Routes[route[r]] \in DeclareKinds}) <= MaxDeclares
          /\ requests = [r \in DOMAIN route |-> NewRequest(Routes[route[r]])]

\* a faulty handler: it enters without waiting for the mutex
LockUnguarded(r) ==
    /\ requests[r].pc = "new"
    /\ lock' = r
    /\ requests' = [requests EXCEPT ![r].pc = "locked",
                                    ![r].start_turn = turns,
                                    ![r].before = game,
                                    ![r].after = game]
    /\ UNCHANGED vars

\* `let mut g = game.lock().unwrap();` (post_turn: and
\* `let start_turn = g.turns;`): blocks while the mutex is held
Lock(r) ==
    /\ requests[r].pc = "new"
    /\ lock = Unlocked
    /\ lock' = r
    /\ requests' = [requests EXCEPT ![r].pc = "locked",
                                    ![r].start_turn = turns,
                                    ![r].before = game,
                                    ![r].after = game]
    /\ UNCHANGED vars

\* the handler of request r is past its lock() and works on the match
Holding(r, kind) ==
    /\ requests[r].kind = kind
    /\ requests[r].pc = "locked"

\* the handler wrote the match and goes on at pc
Wrote(r, pc) ==
    /\ lock' = lock
    /\ requests' = [requests EXCEPT ![r].pc = pc, ![r].after = game']

\* post_step: g.step()
PostStep(r) ==
    /\ Holding(r, "step")
    /\ Step
    /\ Wrote(r, "ran")

\* post_turn: while g.turns == start_turn && g.step != GameOver { g.step() }
PostTurn(r) ==
    /\ Holding(r, "turn")
    /\ turns = requests[r].start_turn
    /\ step # "GameOver"
    /\ Step
    /\ Wrote(r, "locked")

\* post_game: while g.step != GameOver { g.step() }
PostGame(r) ==
    /\ Holding(r, "game")
    /\ step # "GameOver"
    /\ Step
    /\ Wrote(r, "locked")

PostDeclareAttackers(r) ==
    /\ Holding(r, "declare-attackers")
    /\ \E positions \in AttackerPayloads : DeclareAttackers(positions)
    /\ Wrote(r, "ran")

PostDeclareBlockers(r) ==
    /\ Holding(r, "declare-blockers")
    /\ \E map \in BlockerPayloads : DeclareBlockers(map)
    /\ Wrote(r, "ran")

\* post_restart: *g = GameState::new_default()
PostRestart(r) ==
    /\ Holding(r, "restart")
    /\ Served(players')
    /\ current_player_index' = 0
    /\ turns' = 0
    /\ step' = "StartTurn"
    /\ attacking_creatures' = <<>>
    /\ blocking_map' = EmptyMap
    /\ auto_play' = TRUE
    /\ waiting_for_main_decision' = FALSE
    /\ waiting_for_attack_decision' = FALSE
    /\ waiting_for_block_decision' = FALSE
    /\ declares' = 0
    /\ cast_log' = {}
    /\ panic' = FALSE
    /\ skipped' = {}
    /\ Wrote(r, "ran")

\* the handler has nothing left to do on the match
Finished(r) ==
    CASE requests[r].kind = "state" -> requests[r].pc = "locked"
      [] requests[r].kind = "turn" ->
            /\ requests[r].pc = "locked"
            /\ ~(turns = requests[r].start_turn /\ step # "GameOver")
      [] requests[r].kind = "game" ->
            requests[r].pc = "locked" /\ step = "GameOver"
      [] OTHER -> requests[r].pc = "ran"

\* `Json(g.clone())`, and the guard dropped at the end of the handler
Respond(r) ==
    /\ Finished(r)
    /\ requests' = [requests EXCEPT ![r].pc = "done", ![r].response = game]
    /\ lock' = Unlocked
    /\ UNCHANGED vars

Requests == 1..MaxRequests

NextServer ==
    \/ \E r \in Requests : Lock(r)
    \/ \E r \in Requests : PostStep(r)
    \/ \E r \in Requests : PostTurn(r)
    \/ \E r \in Requests : PostGame(r)
    \/ \E r \in Requests : PostDeclareAttackers(r)
    \/ \E r \in Requests : PostDeclareBlockers(r)
    \/ \E r \in Requests : PostRestart(r)
    \/ \E r \in Requests : Respond(r)

SpecServer == InitServer /\ [][NextServer]_<<vars, server>>

\* the fields of a match read from a clone of it
PlayersOf(g) == g[1]
TurnsOf(g) == g[3]
StepOf(g) == g[4]

\* the handler of request r is between its lock() and the drop of its guard
InSection(r) == requests[r].pc \in {"locked", "ran"}

Done(r) == requests[r].pc = "done"

Started == {r \in Requests : requests[r].pc # "new"}

\* whoever is inside holds the mutex, so at most one handler is inside
MutualExclusion == \A r \in Requests : InSection(r) => lock = r

\* inside, the match is what the handler itself found or last wrote
Isolation == \A r \in Requests : InSection(r) => game = requests[r].after

\* the snapshot returned is the match as the handler left it
Snapshots ==
    \A r \in Requests : Done(r) => requests[r].response = requests[r].after

\* the started requests in a row: each one done before the next one found
\* the match as the one before left it, and the match is as the last left it
Orders ==
    {o \in [1..Cardinality(Started) -> Started] :
        \A i, j \in DOMAIN o : o[i] = o[j] => i = j}

InOrder(o) ==
    /\ \A i \in DOMAIN o : i < Len(o) =>
          /\ Done(o[i])
          /\ requests[o[i + 1]].before = requests[o[i]].after
    /\ Len(o) > 0 => game = requests[o[Len(o)]].after

Serializable == \E o \in Orders : InOrder(o)

\* what a finished request did to the match it found
Effect(r) ==
    LET b == requests[r].before
        a == requests[r].after
    IN  CASE requests[r].kind = "state" -> a = b
          [] requests[r].kind = "step" ->
                StepOf(a) \in {Successor(StepOf(b)), "GameOver"}
          [] requests[r].kind = "turn" ->
                /\ StepOf(a) = "GameOver" \/ TurnsOf(a) = TurnsOf(b) + 1
                /\ StepOf(b) # "GameOver" => a # b
          [] requests[r].kind = "game" -> StepOf(a) = "GameOver"
          [] requests[r].kind = "declare-attackers" ->
                StepOf(a) = "DeclareBlockers"
          [] requests[r].kind = "declare-blockers" ->
                StepOf(a) = "AssignDamage"
          [] requests[r].kind = "restart" ->
                /\ StepOf(a) = "StartTurn"
                /\ TurnsOf(a) = 0
                /\ Served(PlayersOf(a))

Effects == \A r \in Requests : Done(r) => Effect(r)

RECURSIVE Advance(_, _)
Advance(ph, k) == IF k = 0 THEN ph ELSE Advance(Successor(ph), k - 1)

\* the step calls made so far, when step requests are all there is
StepCalls == Cardinality({r \in Requests : requests[r].pc \in {"ran", "done"}})

KSteps ==
    (\A r \in Requests : requests[r].kind = "step") =>
        \/ step = Advance("StartTurn", StepCalls)
        \/ step = "GameOver"

\* the match is written by the handler that holds the mutex, and by no other
WrittenByHolder ==
    game' # game =>
        \E r \in Requests :
            /\ lock = r
            /\ lock' = r
            /\ InSection(r)
            /\ requests'[r].after = game'
            /\ \A q \in Requests \ {r} : requests'[q] = requests[q]

(***************************************************************************)
(* C28: the handlers of the service serialize their access to the match:   *)
(* each one holds the single mutex from its first read to its response, so *)
(* at most one is inside, the match changes only by the holder, every      *)
(* snapshot returned is the match as its handler left it, and the started  *)
(* requests stand in a row in which each one found the match as the one    *)
(* before left it; k step requests advance an auto-play match by exactly k *)
(* phases (or to GameOver); and no handler panics holding the mutex.       *)
(***************************************************************************)
C28_HandlersSerialized ==
    /\ [](/\ MutualExclusion
          /\ Isolation
          /\ Snapshots
          /\ Serializable
          /\ Effects
          /\ KSteps
          /\ ~panic)
    /\ [][WrittenByHolder]_<<vars, server>>

\* three step requests answered: the match is three phases on, and two of
\* the handlers found it as another one had left it
C28_Witness ==
    /\ \A r \in Requests : requests[r].kind = "step" /\ Done(r)
    /\ step = "Draw"
    /\ turns = 1
    /\ \E r, q \in Requests :
          /\ StepOf(requests[r].before) = "Untap"
          /\ StepOf(requests[q].before) = "Upkeep"
          /\ StepOf(requests[q].response) = "Draw"

(***************************************************************************)
(* The blockers of auto-play.                                              *)
(***************************************************************************)
\* a step call in DeclareBlockers of an auto-play match
AutoDeclareBlockers == StepDeclareBlockers /\ auto_play

\* the pairs (blocker, attacker) the phase decides on, in order
Decisions == AutoBlocks(Battlefield, attacking_creatures).decisions

\* every key of the map is a position of bf that is no attacker, every value
\* a recorded attacker
PairsOnBattlefield(map, bf, attackers) ==
    \A b \in DOMAIN map :
        /\ b \in 0..(Len(bf) - 1)
        /\ b \notin Elems(attackers)
        /\ map[b] \in Elems(attackers)

\* no attacker is the value of two keys
OneBlockerEach(map) ==
    \A b1, b2 \in DOMAIN map : map[b1] = map[b2] => b1 = b2

\* no blocker is decided on twice
OneAttackerEach(decisions) ==
    \A i, j \in DOMAIN decisions :
        decisions[i][1] = decisions[j][1] => i = j

(***************************************************************************)
(* C29: after an auto-play DeclareBlockers phase the blocking map is a     *)
(* one-to-one pairing: every key is a valid battlefield position that is   *)
(* not an attacker, every value is a recorded attacker, no attacker is the *)
(* value of two keys, and no blocker is assigned to more than one          *)
(* attacker.                                                               *)
(***************************************************************************)
C29_BlockingMapOneToOne ==
    [][AutoDeclareBlockers =>
          /\ PairsOnBattlefield(blocking_map', Battlefield, attacking_creatures)
          /\ OneBlockerEach(blocking_map')
          /\ OneAttackerEach(Decisions)
          /\ DOMAIN blocking_map' = {Decisions[i][1] : i \in DOMAIN Decisions}]_vars

\* the card at position b may block the attacker at position a: an untapped
\* creature that is no attacker, is not yet a blocker and kills the attacker
MayBlock(bf, attackers, used, a, b) ==
    /\ b \notin used
    /\ b \notin Elems(attackers)
    /\ is_creature(bf[b + 1])
    /\ ~is_tapped(bf[b + 1])
    /\ power_or_0(bf[b + 1]) >= toughness_or_0(bf[a + 1])

\* the pairs the attackers from the k-th on get, each the first card that
\* may block it
RECURSIVE FirstFit(_, _, _, _)
FirstFit(bf, attackers, k, used) ==
    IF k > Len(attackers) THEN <<>>
    ELSE LET a == attackers[k]
             fit == {b \in 0..(Len(bf) - 1) : MayBlock(bf, attackers, used, a, b)}
         IN  IF a >= Len(bf) \/ fit = {}
             THEN FirstFit(bf, attackers, k + 1, used)
             ELSE <<<<MinOf(fit), a>>>>
                      \o FirstFit(bf, attackers, k + 1, used \cup {MinOf(fit)})

(***************************************************************************)
(* C30: in an auto-play DeclareBlockers phase the attackers are processed  *)
(* in their stored order and each one is assigned the first battlefield    *)
(* card that is an untapped creature, is not an attacker, has not already  *)
(* been assigned as a blocker and has power >= the attacker's toughness;   *)
(* an attacker for which no such card exists stays unblocked.  In          *)
(* particular every assigned blocker is an untapped creature.              *)
(***************************************************************************)
C30_FirstUntappedCreatureBlocks ==
    [][AutoDeclareBlockers =>
          /\ Decisions = FirstFit(Battlefield, attacking_creatures, 1, {})
          /\ \A b \in DOMAIN blocking_map' :
                /\ is_creature(Battlefield[b + 1])
                /\ ~is_tapped(Battlefield[b + 1])]_vars

(***************************************************************************)
(* The removal of the destroyed cards.                                     *)
(***************************************************************************)
\* the positions found lethal on the battlefield as it stands, when the
\* blocked attackers find the blockers of `found`
Lethal(found) ==
    {p \in 0..(Len(Battlefield) - 1) :
        \E a \in Elems(attacking_creatures) \cap DOMAIN found :
            /\ a < Len(Battlefield)
            /\ found[a] < Len(Battlefield)
            /\ LET attacker == Battlefield[a + 1]
                   blocker == Battlefield[found[a] + 1]
               IN  \/ p = found[a]
                      /\ power_or_0(attacker) >= toughness_or_0(blocker)
                   \/ p = a
                      /\ power_or_0(blocker) >= toughness_or_0(attacker)}

\* the cards of a zone from position k on that are not at a position of D,
\* in their order
RECURSIVE Survivors(_, _, _)
Survivors(cards, D, k) ==
    IF k >= Len(cards) THEN <<>>
    ELSE (IF k \in D THEN <<>> ELSE <<cards[k + 1]>>) \o Survivors(cards, D, k + 1)

\* the cards the step has put on the active player's graveyard
Buried ==
    SubSeq(players'[cur].zones.Graveyard, Len(CurZones.Graveyard) + 1,
           Len(players'[cur].zones.Graveyard))

(***************************************************************************)
(* C31: AssignDamage collects before it removes: the cards moved from the  *)
(* active player's battlefield to that player's graveyard in one step are  *)
(* exactly the attackers and blockers found lethal on the battlefield as   *)
(* it stood at the start of the step, each moved exactly once whatever     *)
(* their positions (also when a position is collected twice), and the      *)
(* surviving battlefield cards keep their relative order.                  *)
(***************************************************************************)
C31_CollectsThenRemoves ==
    [][Damage =>
          \E found \in Finds(blocking_map) :
              /\ players'[cur].zones.Battlefield
                    = Survivors(Battlefield, Lethal(found), 0)
              /\ SubSeq(players'[cur].zones.Graveyard, 1,
                        Len(CurZones.Graveyard)) = CurZones.Graveyard
              /\ Len(Buried) = Cardinality(Lethal(found))
              /\ Elems(Buried) = {Battlefield[p + 1] : p \in Lethal(found)}]_vars

\* the one Forest declared as attacker twice and destroyed by its blockers
\* lies on the graveyard once, the blockers are on the battlefield
C31_Witness ==
    /\ step = "EndTurn"
    /\ declares = 1
    /\ Len(CurZones.Graveyard) = 1
    /\ CurZones.Graveyard[1].name = "Forest"
    /\ Len(Battlefield) >= 2

\* the phases outside combat
OutOfCombat == GameSteps \ {"DeclareBlockers", "AssignDamage"}

NoRecords ==
    /\ attacking_creatures = <<>>
    /\ blocking_map = EmptyMap

(***************************************************************************)
(* C32: AssignDamage clears the attacker list and the blocking map, so in  *)
(* auto-play both records are empty in every state whose phase is          *)
(* StartTurn, Untap, Upkeep, Draw, Main, DeclareAttackers, EndTurn or      *)
(* GameOver; attacker positions recorded in one turn are never used in a   *)
(* later turn: the records are empty whenever the turn counter moves.      *)
(***************************************************************************)
C32_RecordsClearedAfterCombat ==
    /\ []((auto_play /\ step \in OutOfCombat) => NoRecords)
    /\ [][/\ Damage => NoRecords'
          /\ turns' # turns => NoRecords]_vars

\* after a combat whose attacker hit: the records are empty again
C32_Witness ==
    /\ step = "EndTurn"
    /\ auto_play
    /\ NoRecords
    /\ \E p \in DOMAIN players : players[p].life < StartingLife

\* the attacker positions named by an entry of the blocking record whose
\* blocker position is on the battlefield
BlockedOnBattlefield ==
    {blocking_map[b] : b \in {k \in DOMAIN blocking_map : k < Len(Battlefield)}}

\* the sum of the powers of the recorded attackers, from entry k on, that
\* are on the battlefield and have no blocker on the battlefield
RECURSIVE PowerPastAbsentBlockers(_)
PowerPastAbsentBlockers(k) ==
    IF k > Len(attacking_creatures) THEN 0
    ELSE (IF /\ attacking_creatures[k] < Len(Battlefield)
             /\ attacking_creatures[k] \notin BlockedOnBattlefield
          THEN power_or_0(Battlefield[attacking_creatures[k] + 1]) ELSE 0)
         + PowerPastAbsentBlockers(k + 1)

(***************************************************************************)
(* C33: a blocking-map entry whose blocker position is not a valid         *)
(* battlefield position is treated as absent in AssignDamage: the attacker *)
(* it names is resolved as an unblocked attacker and its power is          *)
(* subtracted from the other players' life totals.                         *)
(***************************************************************************)
C33_StaleBlockerIsAbsent ==
    [][Damage =>
          \A p \in DOMAIN players :
              p # cur =>
                  players'[p].life = players[p].life - PowerPastAbsentBlockers(1)]_vars

(***************************************************************************)
(* C34: capability operations on a card that lacks the capability are      *)
(* no-ops: a card without a Tappable fragment is reported untapped before  *)
(* and after any set_tapped call, and set_summoning_sickness on a card     *)
(* without a creature fragment changes nothing; neither call attaches a    *)
(* fragment or changes tags, cost or the other fragment.                   *)
(***************************************************************************)
C34_MissingCapabilityNoOp ==
    \A value \in BOOLEAN :
        /\ ~is_tappable(TheCard) =>
              /\ ~is_tapped(TheCard)
              /\ ~is_tapped(set_tapped(TheCard, value))
              /\ set_tapped(TheCard, value) = TheCard
        /\ ~HasCreatureFragment(TheCard) =>
              /\ ~has_summoning_sickness(TheCard)
              /\ set_summoning_sickness(TheCard, value) = TheCard
        /\ LET tapped == set_tapped(TheCard, value)
               sick == set_summoning_sickness(TheCard, value)
           IN  /\ is_tappable(tapped) = is_tappable(TheCard)
               /\ HasCreatureFragment(sick) = HasCreatureFragment(TheCard)
               /\ tapped.card_types = TheCard.card_types
               /\ sick.card_types = TheCard.card_types
               /\ tapped.cost = TheCard.cost
               /\ sick.cost = TheCard.cost
               /\ tapped.fragments.Creature = TheCard.fragments.Creature
               /\ sick.fragments.Tappable = TheCard.fragments.Tappable

\* a card with a creature fragment and no tappable one: it can be marked
\* sick, and set_tapped has nothing to write to
C34_Witness ==
    /\ TheCard.name = "Wastes"
    /\ ~is_tappable(TheCard)
    /\ HasCreatureFragment(TheCard)
    /\ has_summoning_sickness(TheCard)

\* the phases of a turn after its StartTurn
InTurn == GameSteps \ {"StartTurn", "GameOver"}

(***************************************************************************)
(* C35: turn counter and current player stay in step: with N players,      *)
(* current_player_index = (turns - 1) mod N whenever the phase is one of   *)
(* Untap..EndTurn, and current_player_index = turns mod N whenever the     *)
(* phase is StartTurn; the turn counter increases by exactly 1 per         *)
(* StartTurn step and never otherwise.                                     *)
(***************************************************************************)
C35_CounterAndPlayerInStep ==
    /\ [](/\ step \in InTurn =>
                current_player_index = (turns - 1) % Len(players)
          /\ step = "StartTurn" =>
                current_player_index = turns % Len(players))
    /\ [][IF Step /\ step = "StartTurn" THEN turns' = turns + 1
                                         ELSE turns' = turns]_vars

\* three players, the third turn is over: the index has wrapped to 0 and
\* the counter is still 3
C35_Witness ==
    /\ Len(players) = 3
    /\ step = "StartTurn"
    /\ turns = 3
    /\ current_player_index = 0

(***************************************************************************)
(* C36: during a player's turn nothing owned by another player changes     *)
(* except life: every step leaves every zone of every non-active player    *)
(* unchanged (no card of theirs is drawn, played, tapped, untapped,        *)
(* cleared of sickness, chosen as blocker or destroyed); only the          *)
(* non-active players' life totals can change, and only in AssignDamage.   *)
(***************************************************************************)
C36_OthersKeepTheirZones ==
    [][Step =>
          /\ DOMAIN players' = DOMAIN players
          /\ \A p \in DOMAIN players :
                p # cur =>
                    /\ players'[p].zones = players[p].zones
                    /\ players'[p].life # players[p].life =>
                          step = "AssignDamage"
          /\ \A b \in DOMAIN blocking_map' :
                b \in 0..(Len(players'[cur].zones.Battlefield) - 1)]_vars

\* the turn of a player who has hit the other one, whose sick creature and
\* tapped land lie as that player left them
C36_Witness ==
    /\ step = "EndTurn"
    /\ \E p \in DOMAIN players :
          /\ p # cur
          /\ players[p].life < StartingLife
          /\ \E i \in DOMAIN players[p].zones.Battlefield :
                is_tapped(players[p].zones.Battlefield[i])
          /\ \E i \in DOMAIN players[p].zones.Battlefield :
                has_summoning_sickness(players[p].zones.Battlefield[i])

\* some player other than the active one is at or below 0, the active one
\* is not
OpponentDead(ps) ==
    /\ ps[cur].life > 0
    /\ \E p \in DOMAIN ps : p # cur /\ ps[p].life <= 0

(***************************************************************************)
(* C37: every GameOver state reached by step has a cause: either some      *)
(* player's life total is <= 0, or the active player's library is empty    *)
(* and that player's Draw failed; in the first case the player at or below *)
(* 0 is never the active player, and life totals never increase in any     *)
(* step.                                                                   *)
(***************************************************************************)
C37_GameOverHasCause ==
    /\ [](is_game_over =>
             \/ OpponentDead(players)
             \/ CurZones.Library = <<>>)
    /\ [](players[cur].life > 0)
    /\ [][Step =>
             /\ \A p \in DOMAIN players : players'[p].life <= players[p].life
             /\ (is_game_over' /\ ~is_game_over) =>
                   \/ step = "AssignDamage" /\ OpponentDead(players')
                   \/ /\ step = "Draw"
                      /\ CurZones.Library = <<>>
                      /\ players' = players]_vars

\* a match ended by a failed draw: nobody is dead
C37_Witness ==
    /\ is_game_over
    /\ CurZones.Library = <<>>
    /\ turns > 1
    /\ \A p \in DOMAIN players : players[p].life > 0

(***************************************************************************)
(* C38: a finished match stays finished under every operation: once        *)
(* is_game_over is true it remains true after any sequence of step,        *)
(* declare_attackers and declare_blockers calls, and those calls change no *)
(* life total and no zone of the finished match.                           *)
(***************************************************************************)
C38_FinishedStaysFinished ==
    [][is_game_over => (is_game_over' /\ players' = players)]_vars

\* the sum of the powers of the cards of a zone, from the k-th on
RECURSIVE TotalPower(_, _)
TotalPower(cards, k) ==
    IF k > Len(cards) THEN 0
    ELSE power_or_0(cards[k]) + TotalPower(cards, k + 1)

(***************************************************************************)
(* C39: each creature deals its power at most once per AssignDamage step:  *)
(* for any attacker record, including one declared externally with a       *)
(* position listed more than once, the life each opponent loses in the     *)
(* step is at most the sum of the powers of the distinct cards on the      *)
(* active player's battlefield.                                            *)
(***************************************************************************)
C39_PowerDealtOnce ==
    [][Damage =>
          \A p \in DOMAIN players :
              p # cur =>
                  players[p].life - players'[p].life
                      <= TotalPower(Battlefield, 1)]_vars

\* the states one AssignDamage step can lead to: one outcome per iteration
\* order of the blocking map, that is per choice of the blocker each blocked
\* attacker finds
DamageOutcomes ==
    {AssignDamage(players, current_player_index, attacking_creatures,
                  found).players : found \in Finds(blocking_map)}

(***************************************************************************)
(* C40: step is deterministic: two matches in the same state (same zones,  *)
(* lives, phase, attacker list, blocking map and flags) are in the same    *)
(* state after one step, in every phase; in particular the outcome of      *)
(* AssignDamage does not depend on the iteration order of the blocking map *)
(* when an externally declared map assigns several blockers to the same    *)
(* attacker.  Every other arm of step is a function of the state; in       *)
(* AssignDamage the players after the step are the same for every order.   *)
(***************************************************************************)
C40_StepDeterministic ==
    step = "AssignDamage" => Cardinality(DamageOutcomes) = 1

====
